---------------------------- MODULE Spec2Model ----------------------------
(***************************************************************************)
(* Model of the HPE log-processing scripts:                                *)
(*   success-failure.py  the online/offline outcome classifier             *)
(*   2.py                the per-server extraction pass and its helpers    *)
(*                                                                         *)
(* Text is modelled as a sequence of tokens.  A token stands for a literal *)
(* piece of text that the code searches for (a marker phrase, a quote, a   *)
(* brace) or for a word between such pieces; searching a text is searching *)
(* the token sequence, the way str.find / re.search walk the characters.   *)
(***************************************************************************)
EXTENDS Integers, Sequences, FiniteSets, TLC

VARIABLES
    \* ---- success-failure.py: determine_update_type_and_check ----
    installsetlog,   \* the install-set log file: [st, data]
    cidebug,         \* the execution log file: [st, lines]
    cls_pc,          \* "start" before the call, "done" after it
    success,         \* the value the call returned
    raised,          \* TRUE iff the call ended by raising
    checks,          \* the checks the call ran on the execution log, in order
    \* ---- 2.py: extract_isr called on its own ----
    isr_log,         \* installSetLogs.log: [st, data]
    isr_folder,      \* TRUE iff serverlogs/<uuid> is a directory
    isr_dict,        \* the info_dict the call works on
    isr_before,      \* info_dict as it was when the call began
    isr_exc,         \* the exception the call re-raised, NoExc if it returned
    isr_span,        \* the span handed to json.loads: [start, end, cut, some]
    isr_pc,          \* "start" before the call, "done" after it
    \* ---- 2.py: process_dependency_failure_json called on its own ----
    dep_file,        \* DependencyFailure.json: [st, data]
    dep_dict,        \* the info_dict the calls work on
    dep_before,      \* info_dict before the first call
    dep_first,       \* Components as the first call left them
    dep_ret,         \* what the last call returned
    dep_runs,        \* how many calls have been made
    \* ---- 2.py: extract_firmware_log_info called on its own ----
    fw_log,          \* serverlogs/<uuid>/<uuid>.log: [st, lines]
    fw_dict,         \* the info_dict the call works on
    fw_before,       \* info_dict as it was when the call began
    fw_pc,           \* "start" before the call, "done" after it
    \* ---- 2.py: main, the batch driver ----
    machine,         \* the files under output/<machine> and the store's answers
    main_pc,         \* the statement of main that runs next
    main_shared,     \* [version, model_number], read once before the loop
    main_index,      \* position of json_file in json_files
    main_dict,       \* info_dict of the pass under way
    main_trace,      \* the steps the pass under way has run, in order
    main_isr,        \* the extract_isr call of the pass: [calls, before, exc]
    main_saved,      \* the side files written: [uuid, record], in order
    main_handoffs,   \* the records given to insert_one, in order
    main_stored,     \* the documents the collection holds, in order
    main_results,    \* each insert_one call: [uuid, outcome, find_one], in order
    main_sut_log,    \* the log the pass under way read for the SUT fields
    \* ---- 2.py: connect_to_mongodb called on its own ----
    conn_env,        \* TRUE iff MONGO_USER and MONGO_PASS are set
    conn_server,     \* what the k-th connection attempt meets
    conn_pc,         \* "start", "try", "sleep", "returned" or "raised"
    conn_attempt,    \* the loop variable attempt
    conn_events,     \* the attempts (by outcome) and the sleeps, in order
    \* ---- 2.py and success-failure.py reading one install-set log ----
    typ_log,         \* installSetLogs.log: [st, data]
    typ_method,      \* Installation Method after extract_installset_info
    typ_dispatch,    \* the update type the classifier dispatches on
    typ_ran,         \* the readers that have run
    \* ---- 2.py: the two SUT extractors on one log ----
    sut_lines,       \* the lines of the log both extractors read
    sut_own,         \* the record after extract_firmware_log_info
    sut_fb,          \* extract_sut_info_from_log_content: [exc, sut_info]
    sut_ran,         \* the extractors that have run
    \* ---- 3.py: safe_cleanup ----
    cl_arg,          \* machine_dir: [given, abs, parts]
    cl_dirs,         \* the directories that exist, as absolute paths
    cl_before,       \* the directories that existed when the call began
    cl_msg,          \* what the call printed last before 'Cleanup complete.'
    cl_pc,           \* "start" before the call, "done" after it
    \* ---- master.py: main, the batch over the machines ----
    mst_output,      \* ./output: [st, listing], the machine directories as iterdir gives them
    mst_script,      \* TRUE iff orchestrator.py exists
    mst_world,       \* what the analysis of each machine ends with
    mst_present,     \* the machine directories that exist now
    mst_pc,          \* "start", "loop", "summary" or "returned"
    mst_sorted,      \* sorted(machine_dirs)
    mst_i,           \* position of machine_name in sorted(machine_dirs)
    successful,      \* the list successful
    failed,          \* the list failed
    mst_analysed,    \* the machines process_machine was called for, in order
    mst_exit,        \* the value main returned, -1 before it returns
    \* ---- orchestrator.py: main, 2.py then 3.py for one machine ----
    orch_launch,     \* TRUE iff the 2.py subprocess can be started
    orch_dir,        \* TRUE iff output/<machine> exists
    orch_pc,         \* "start", "2.py", "3.py" or "returned"
    orch_ret         \* the value main returned, -1 before it returns

clsVars == <<installsetlog, cidebug, cls_pc, success, raised, checks>>

isrVars == <<isr_log, isr_folder, isr_dict, isr_before, isr_exc, isr_span, isr_pc>>

depVars == <<dep_file, dep_dict, dep_before, dep_first, dep_ret, dep_runs>>

fwVars == <<fw_log, fw_dict, fw_before, fw_pc>>

mainVars ==
    <<machine, main_pc, main_shared, main_index, main_dict, main_trace, main_isr,
      main_saved, main_handoffs, main_stored, main_results, main_sut_log>>

connVars == <<conn_env, conn_server, conn_pc, conn_attempt, conn_events>>

typVars == <<typ_log, typ_method, typ_dispatch, typ_ran>>

sutVars == <<sut_lines, sut_own, sut_fb, sut_ran>>

clVars == <<cl_arg, cl_dirs, cl_before, cl_msg, cl_pc>>

mstVars == <<mst_output, mst_script, mst_world, mst_present, mst_pc, mst_sorted, mst_i, successful, failed, mst_analysed, mst_exit>>

orchVars == <<orch_launch, orch_dir, orch_pc, orch_ret>>

vars == <<clsVars, isrVars, depVars, fwVars, mainVars, connVars, typVars, sutVars, clVars, mstVars, orchVars>>

\* What each part of the model leaves alone.
NotCls == <<isrVars, depVars, fwVars, mainVars, connVars, typVars, sutVars, clVars, mstVars, orchVars>>

NotIsr == <<clsVars, depVars, fwVars, mainVars, connVars, typVars, sutVars, clVars, mstVars, orchVars>>

NotDep == <<clsVars, isrVars, fwVars, mainVars, connVars, typVars, sutVars, clVars, mstVars, orchVars>>

NotFw == <<clsVars, isrVars, depVars, mainVars, connVars, typVars, sutVars, clVars, mstVars, orchVars>>

NotMain == <<clsVars, isrVars, depVars, fwVars, connVars, typVars, sutVars, clVars, mstVars, orchVars>>

NotConn == <<clsVars, isrVars, depVars, fwVars, mainVars, typVars, sutVars, clVars, mstVars, orchVars>>

NotTyp == <<clsVars, isrVars, depVars, fwVars, mainVars, connVars, sutVars, clVars, mstVars, orchVars>>

NotSut == <<clsVars, isrVars, depVars, fwVars, mainVars, connVars, typVars, clVars, mstVars, orchVars>>

NotCl == <<clsVars, isrVars, depVars, fwVars, mainVars, connVars, typVars, sutVars, mstVars, orchVars>>

NotMst == <<clsVars, isrVars, depVars, fwVars, mainVars, connVars, typVars, sutVars, clVars, orchVars>>

\* The orchestrator starts main of 2.py, so main's variables are not in it.
NotOrch == <<clsVars, isrVars, depVars, fwVars, connVars, typVars, sutVars, clVars, mstVars>>

\* A specification runs one part; the variables of the other parts stay idle.
ClsIdle ==
    /\ installsetlog = [st |-> "missing", data |-> <<>>]
    /\ cidebug = [st |-> "missing", lines |-> <<>>]
    /\ cls_pc = "idle"
    /\ success = FALSE
    /\ raised = FALSE
    /\ checks = <<>>

IsrIdle ==
    /\ isr_log = [st |-> "missing", data |-> <<>>]
    /\ isr_folder = FALSE
    /\ isr_dict = <<>>
    /\ isr_before = <<>>
    /\ isr_exc = <<>>
    /\ isr_span = <<>>
    /\ isr_pc = "idle"

DepIdle ==
    /\ dep_file = [st |-> "missing", data |-> <<>>]
    /\ dep_dict = <<>>
    /\ dep_before = <<>>
    /\ dep_first = <<>>
    /\ dep_ret = FALSE
    /\ dep_runs = 0

FwIdle ==
    /\ fw_log = [st |-> "missing", lines |-> <<>>]
    /\ fw_dict = <<>>
    /\ fw_before = <<>>
    /\ fw_pc = "idle"

MainIdle ==
    /\ machine = <<>>
    /\ main_pc = "idle"
    /\ main_shared = <<>>
    /\ main_index = 0
    /\ main_dict = <<>>
    /\ main_trace = <<>>
    /\ main_isr = <<>>
    /\ main_saved = <<>>
    /\ main_handoffs = <<>>
    /\ main_stored = <<>>
    /\ main_results = <<>>
    /\ main_sut_log = "none"

ConnIdle ==
    /\ conn_env = FALSE
    /\ conn_server = <<>>
    /\ conn_pc = "idle"
    /\ conn_attempt = 0
    /\ conn_events = <<>>

TypIdle ==
    /\ typ_log = [st |-> "missing", data |-> <<>>]
    /\ typ_method = ""
    /\ typ_dispatch = <<>>
    /\ typ_ran = {"idle"}

SutIdle ==
    /\ sut_lines = <<>>
    /\ sut_own = <<>>
    /\ sut_fb = <<>>
    /\ sut_ran = {"idle"}

ClIdle ==
    /\ cl_arg = <<>>
    /\ cl_dirs = {}
    /\ cl_before = {}
    /\ cl_msg = ""
    /\ cl_pc = "idle"

MstIdle ==
    /\ mst_output = <<>>
    /\ mst_script = FALSE
    /\ mst_world = <<>>
    /\ mst_present = {}
    /\ mst_pc = "idle"
    /\ mst_sorted = <<>>
    /\ mst_i = 0
    /\ successful = <<>>
    /\ failed = <<>>
    /\ mst_analysed = <<>>
    /\ mst_exit = -1

OrchIdle ==
    /\ orch_launch = FALSE
    /\ orch_dir = FALSE
    /\ orch_pc = "idle"
    /\ orch_ret = -1

----------------------------------------------------------------------------
(* Generic helpers on token sequences.                                      *)

Max(S) == CHOOSE x \in S : \A y \in S : y <= x

Min(S) == CHOOSE x \in S : \A y \in S : x <= y

\* All sequences over S of length 0..n.
SeqsUpTo(S, n) == UNION {[1..k -> S] : k \in 0..n}

RECURSIVE Flatten(_)
\* Concatenation of a sequence of sequences.
Flatten(ss) == IF ss = <<>> THEN <<>> ELSE Head(ss) \o Flatten(Tail(ss))

\* pat occurs in text starting at index i.
IsAt(text, pat, i) ==
    /\ i >= 1
    /\ i + Len(pat) - 1 <= Len(text)
    /\ SubSeq(text, i, i + Len(pat) - 1) = pat

\* str.find(tok, from) on tokens, 1-based; 0 stands for Python's -1.
Find(text, tok, from) ==
    LET hits == {i \in from..Len(text) : text[i] = tok}
    IN  IF hits = {} THEN 0 ELSE Min(hits)

----------------------------------------------------------------------------
(* success-failure.py                                                       *)

\* A file as open() sees it: readable ("ok"), absent ("missing", open raises
\* FileNotFoundError) or failing another way ("error": permission, decoding).
FileStates == {"ok", "missing", "error"}

\* The text '"update_type":' as tokens: quote, word, quote, colon.
search_key == <<"\"", "update_type", "\"", ":">>

\* text.rindex(search_key): the last occurrence, 0 when there is none
\* (Python raises ValueError there).
rindex_first_mutant(text, key) ==
    LET occ == {i \in 1..Len(text) : IsAt(text, key, i)}
    IN  IF occ = {} THEN 0 ELSE Min(occ)

rindex(text, key) ==
    LET occ == {i \in 1..Len(text) : IsAt(text, key, i)}
    IN  IF occ = {} THEN 0 ELSE Max(occ)

\* Returns [none, value]: none = TRUE is Python's None; value is the text
\* between the first two quotes after the last search key.
extract_last_update_type(text) ==
    LET last_pos == rindex(text, search_key)
        start_quote_pos == Find(text, "\"", last_pos + Len(search_key))
        end_quote_pos == Find(text, "\"", start_quote_pos + 1)
        None == [none |-> TRUE, value |-> <<>>]
    IN  IF last_pos = 0 THEN None
        ELSE IF start_quote_pos = 0 THEN None
        ELSE IF end_quote_pos = 0 THEN None
        ELSE [none |-> FALSE,
              value |-> SubSeq(text, start_quote_pos + 1, end_quote_pos - 1)]

\* The literal prefix of fw_state_pattern; re.IGNORECASE accepts any case of it.
FwStatePrefix ==
    {"Updating iLO with fwInstallState:", "updating ilo with fwinstallstate:"}

\* Tokens made of \w characters only.
WordTokens == {"Activated", "activated", "Failed", "InProgress"}

\* fw_state_pattern.search(line): the positions where the prefix is followed
\* (after optional blanks) by a word; the leftmost one is the match.
fw_state_hits(line) ==
    {i \in 1..(Len(line) - 1) : line[i] \in FwStatePrefix /\ line[i + 1] \in WordTokens}

fw_state_group1(line) == line[Min(fw_state_hits(line)) + 1]

\* final_state = fw_states[-1]
final_state_first_mutant(fw_states) == fw_states[1]

final_state_of(fw_states) == fw_states[Len(fw_states)]

\* Results of the checks: [ret, exc]; exc # "none" means the call raised.
Returned(b) == [ret |-> b, exc |-> "none"]

Raised(e) == [ret |-> FALSE, exc |-> e]

check_firmware_update_status(log_file) ==
    IF log_file.st = "missing" THEN Returned(FALSE)
    ELSE IF log_file.st = "error" THEN Raised("Exception")
    ELSE
        LET matching == SelectSeq(log_file.lines, LAMBDA l : fw_state_hits(l) # {})
            fw_states == [k \in 1..Len(matching) |-> fw_state_group1(matching[k])]
        IN  IF fw_states = <<>> THEN Returned(FALSE)
            ELSE IF final_state_of(fw_states) = "Activated" THEN Returned(TRUE)
            ELSE Returned(FALSE)

FetchFailedToken ==
    "fetchFailedComponentList Total number of failed components for server name:"

AbsarokaToken == "Absaroka Firmware update is complete for server:"

\* fetch_failed_pattern.search on one line ('.' does not cross a newline):
\* '... server name: .*?, bay .*? uuid: .*? 0' needs text between ', bay ' and
\* ' uuid: ' and between 'uuid: ' and ' 0'.
fetch_failed_line(line) ==
    \E f, b, u, z \in 1..Len(line) :
        /\ line[f] = FetchFailedToken
        /\ f < b /\ line[b] = ", bay"
        /\ b + 1 < u /\ line[u] = "uuid:"
        /\ u + 1 < z /\ line[z] = "0"

absaroka_line(line) == \E i \in 1..Len(line) : line[i] = AbsarokaToken

check_offline_firmware_update(log_file) ==
    IF log_file.st # "ok" THEN Returned(FALSE)
    ELSE
        LET fetch_failed_match == \E k \in 1..Len(log_file.lines) :
                                      fetch_failed_line(log_file.lines[k])
            absaroka_match == \E k \in 1..Len(log_file.lines) :
                                  absaroka_line(log_file.lines[k])
        IN  IF fetch_failed_match /\ absaroka_match
            THEN Returned(FALSE)
            ELSE Returned(FALSE)

is_online(update_type) ==
    ~update_type.none /\ update_type.value \in {<<"Online">>, <<"online">>}

is_offline(update_type) ==
    ~update_type.none /\ update_type.value \in {<<"Offline">>, <<"offline">>}

\* The try block of determine_update_type_and_check: [ret, exc, checks].
determine_try_block(isl, cid) ==
    IF isl.st = "missing" THEN [ret |-> FALSE, exc |-> "FileNotFoundError", checks |-> <<>>]
    ELSE IF isl.st = "error" THEN [ret |-> FALSE, exc |-> "Exception", checks |-> <<>>]
    ELSE
        LET update_type == extract_last_update_type(isl.data)
        IN  IF is_online(update_type) THEN
                LET r == check_firmware_update_status(cid)
                IN  [ret |-> r.ret, exc |-> r.exc, checks |-> <<"online">>]
            ELSE IF is_offline(update_type) THEN
                LET r == check_offline_firmware_update(cid)
                IN  [ret |-> r.ret, exc |-> r.exc, checks |-> <<"offline">>]
            ELSE [ret |-> FALSE, exc |-> "none", checks |-> <<>>]

determine_without_handlers(isl, cid) == determine_try_block(isl, cid)

\* The whole function: both except clauses return False.
determine_update_type_and_check(isl, cid) ==
    LET r == determine_try_block(isl, cid)
    IN  IF r.exc = "none" THEN r
        ELSE [ret |-> FALSE, exc |-> "none", checks |-> r.checks]

DetermineUpdateTypeAndCheck ==
    /\ cls_pc = "start"
    /\ LET r == determine_update_type_and_check(installsetlog, cidebug)
       IN  /\ success' = r.ret
           /\ raised' = (r.exc # "none")
           /\ checks' = r.checks
    /\ cls_pc' = "done"
    /\ UNCHANGED <<installsetlog, cidebug>>
    /\ UNCHANGED NotCls

----------------------------------------------------------------------------
(* Inputs of the classifier.                                                *)

MaxSegs == 2

MaxLines == 3

OkText(t) == [st |-> "ok", data |-> t]

OkLines(ls) == [st |-> "ok", lines |-> ls]

NoText(s) == [st |-> s, data |-> <<>>]

NoLines(s) == [st |-> s, lines |-> <<>>]

\* '"update_type": "<v>"'
KeyThen(v) == search_key \o <<"\"", v, "\"">>

OnlineVariants == {"Online", "online", "ONLINE", "OnLine"}

OfflineVariants == {"Offline", "offline", "OFFLINE"}

\* Pieces an install-set log is made of.
InstallSegments ==
    {KeyThen(v) : v \in OnlineVariants \cup OfflineVariants \cup {"Sequential"}}
    \cup {search_key,                                    \* marker, nothing after it
          search_key \o <<"\"", "Online">>,              \* no closing quote
          search_key \o <<"\"", "\"">>,                  \* empty value
          <<"\"", "update_type", "\"", " ", ":", "\"", "Online", "\"">>,
          <<"\"", "offline", "\"">>,                     \* a quoted word, no marker
          <<"INFO">>}

InstallTexts == {Flatten(ss) : ss \in SeqsUpTo(InstallSegments, MaxSegs)}

FwPrefix == "Updating iLO with fwInstallState:"

OnlineLines ==
    {<<FwPrefix, "Activated">>, <<FwPrefix, "Failed">>, <<FwPrefix, "InProgress">>,
     <<"updating ilo with fwinstallstate:", "Activated">>,
     <<FwPrefix, "activated">>,
     <<FwPrefix>>,
     <<FwPrefix, "-", "Activated">>,
     <<FwPrefix, "Failed", FwPrefix, "Activated">>,
     <<"INFO", FwPrefix, "Activated", "-">>,
     <<"INFO">>}

OfflineLines ==
    {<<FetchFailedToken, "srv", ", bay", "3", "uuid:", "u1", "0">>,
     <<FetchFailedToken, "srv", ", bay", "3", "uuid:", "u1", "3">>,
     <<FetchFailedToken, "srv", ", bay", "3", "uuid:", "u1", "0", "3">>,
     <<FetchFailedToken, "srv", ", bay", "3", "uuid:", "0">>,
     <<AbsarokaToken, "srv">>,
     <<"INFO">>}

\* A few whole execution logs for the runs that vary the install-set log.
ExecSamples ==
    {OkLines(<<<<FwPrefix, "Activated">>>>),
     OkLines(<<<<FwPrefix, "Failed">>>>),
     OkLines(<<<<FetchFailedToken, "srv", ", bay", "3", "uuid:", "u1", "0">>,
               <<AbsarokaToken, "srv">>>>),
     OkLines(<<>>),
     NoLines("missing"), NoLines("error")}

InitOnline ==
    /\ installsetlog \in {OkText(KeyThen(v)) : v \in {"Online", "online"}}
    /\ cidebug \in {OkLines(ls) : ls \in SeqsUpTo(OnlineLines, MaxLines)}
                   \cup {NoLines("missing"), NoLines("error")}

InitOffline ==
    /\ installsetlog \in {OkText(KeyThen(v)) : v \in {"Offline", "offline"}}
    /\ cidebug \in {OkLines(ls) : ls \in SeqsUpTo(OfflineLines, MaxLines)}
                   \cup {NoLines("missing"), NoLines("error")}

InitDispatch ==
    /\ installsetlog \in {OkText(t) : t \in InstallTexts}
                         \cup {NoText("missing"), NoText("error")}
    /\ cidebug \in ExecSamples

InitClassify ==
    /\ (InitOnline \/ InitOffline \/ InitDispatch)
    /\ cls_pc = "start"
    /\ success = FALSE
    /\ raised = FALSE
    /\ checks = <<>>
    /\ IsrIdle /\ DepIdle /\ FwIdle /\ MainIdle /\ ConnIdle /\ TypIdle /\ SutIdle /\ ClIdle /\ MstIdle /\ OrchIdle

NextClassify == DetermineUpdateTypeAndCheck

SpecClassify == InitClassify /\ [][NextClassify]_vars

----------------------------------------------------------------------------
(* Properties of the classifier.                                            *)

\* A line announces an install state: the prefix (any case) directly followed
\* by a word.
Announces(line) ==
    \E i \in 1..(Len(line) - 1) :
        line[i] \in FwStatePrefix /\ line[i + 1] \in WordTokens

\* The word of the leftmost announcement on the line.
AnnouncedWord(line) ==
    LET i == CHOOSE j \in 1..(Len(line) - 1) :
                 /\ line[j] \in FwStatePrefix /\ line[j + 1] \in WordTokens
                 /\ \A k \in 1..(j - 1) :
                        ~(line[k] \in FwStatePrefix /\ line[k + 1] \in WordTokens)
    IN  line[i + 1]

AnnouncingLines == {k \in 1..Len(cidebug.lines) : Announces(cidebug.lines[k])}

RanOnline == cls_pc = "done" /\ checks = <<"online">>

RanOffline == cls_pc = "done" /\ checks = <<"offline">>

\* C1: on the online branch the call returns success iff the execution log has
\* an announcement line and the word on the last one is exactly "Activated";
\* with no such line (or no file) it returns failure and does not raise.
C1_OnlineLastStateDecides ==
    RanOnline =>
        /\ ~raised
        /\ success <=>
              /\ cidebug.st = "ok"
              /\ AnnouncingLines # {}
              /\ AnnouncedWord(cidebug.lines[Max(AnnouncingLines)]) = "Activated"

\* C1 witness: an earlier "Activated" is followed by a final "Failed" and the
\* call has returned failure.
C1_Witness ==
    /\ RanOnline
    /\ cidebug.st = "ok"
    /\ Cardinality(AnnouncingLines) >= 2
    /\ AnnouncedWord(cidebug.lines[Min(AnnouncingLines)]) = "Activated"
    /\ AnnouncedWord(cidebug.lines[Max(AnnouncingLines)]) = "Failed"
    /\ ~success

\* The two offline markers, read off the log directly.
HasZeroFailedComponentsLine ==
    \E k \in 1..Len(cidebug.lines) :
        LET l == cidebug.lines[k]
        IN  /\ \E i \in 1..Len(l) : l[i] = FetchFailedToken
            /\ l[Len(l)] = "0"
            /\ fetch_failed_line(l)

HasAbsarokaCompleteLine ==
    \E k \in 1..Len(cidebug.lines) :
        \E i \in 1..Len(cidebug.lines[k]) : cidebug.lines[k][i] = AbsarokaToken

\* C2: on the offline branch the returned boolean equals the joint-marker
\* predicate: success iff both markers are in the execution log.
C2_OfflineJointMarkers ==
    RanOffline =>
        (success <=> (cidebug.st = "ok" /\ HasZeroFailedComponentsLine
                                        /\ HasAbsarokaCompleteLine))

\* The position of the last update-type marker of a text, and what follows it.
HasMarker(t) == \E i \in 1..Len(t) : IsAt(t, search_key, i)

LastMarker(t) ==
    CHOOSE i \in 1..Len(t) :
        IsAt(t, search_key, i) /\ \A j \in (i + 1)..Len(t) : ~IsAt(t, search_key, j)

FromLastMarker(t) == SubSeq(t, LastMarker(t), Len(t))

AfterLastMarker(t) == SubSeq(t, LastMarker(t) + Len(search_key), Len(t))

QuotePositions(t) == {i \in 1..Len(t) : t[i] = "\""}

HasQuotedValue(t) == Cardinality(QuotePositions(t)) >= 2

\* The text between the first two quotes of t.
QuotedValue(t) ==
    LET a == Min(QuotePositions(t))
        b == Min(QuotePositions(t) \ {a})
    IN  SubSeq(t, a + 1, b - 1)

\* The last marker's quoted value is the one-word text w.
LastValueIn(t, W) ==
    /\ HasMarker(t)
    /\ HasQuotedValue(AfterLastMarker(t))
    /\ \E w \in W : QuotedValue(AfterLastMarker(t)) = <<w>>

\* C3: the branch run is decided by the quoted value after the LAST marker
\* alone: texts that agree from their last marker on are classified alike,
\* whatever stands before it, and the value "Online"/"online" after the last
\* marker runs the online check, "Offline"/"offline" the offline check.
C3_LastMarkerDecides ==
    (cls_pc = "done" /\ installsetlog.st = "ok" /\ HasMarker(installsetlog.data)) =>
        /\ LastValueIn(installsetlog.data, {"Online", "online"}) => checks = <<"online">>
        /\ LastValueIn(installsetlog.data, {"Offline", "offline"}) => checks = <<"offline">>
        /\ \A seg \in InstallSegments :
              LET other == OkText(seg \o FromLastMarker(installsetlog.data))
                  r == determine_update_type_and_check(other, cidebug)
              IN  r.checks = checks /\ r.ret = success

\* C3 witness: two markers with different values; the last one (offline) won.
C3_Witness ==
    /\ RanOffline
    /\ installsetlog.st = "ok"
    /\ Cardinality({i \in 1..Len(installsetlog.data) :
                       IsAt(installsetlog.data, search_key, i)}) = 2
    /\ IsAt(installsetlog.data, KeyThen("Online"), 1)
    /\ LastValueIn(installsetlog.data, {"Offline"})

\* The install-set log names no update type the classifier could recognise,
\* in any letter case.
NoRecognisableType ==
    \/ installsetlog.st # "ok"
    \/ ~LastValueIn(installsetlog.data, OnlineVariants \cup OfflineVariants)

\* C4: with the update type absent or unrecognised the call returns failure
\* without running either check; and every call returns a boolean, never
\* raises, also with a missing or unreadable file.
C4_UnknownTypeIsFailure ==
    cls_pc = "done" =>
        /\ ~raised
        /\ success \in BOOLEAN
        /\ Len(checks) <= 1
        /\ NoRecognisableType => (~success /\ checks = <<>>)

\* C4 witness: a readable log whose last marker carries an unrecognised value,
\* classified as failure with no check run.
C4_Witness ==
    /\ cls_pc = "done"
    /\ installsetlog.st = "ok"
    /\ LastValueIn(installsetlog.data, {"Sequential"})
    /\ ~success /\ checks = <<>> /\ ~raised

\* C5: every letter-case variant of "online" runs the online check and every
\* variant of "offline" the offline check.
C5_CaseInsensitiveDispatch ==
    (cls_pc = "done" /\ installsetlog.st = "ok") =>
        /\ LastValueIn(installsetlog.data, OnlineVariants) => checks = <<"online">>
        /\ LastValueIn(installsetlog.data, OfflineVariants) => checks = <<"offline">>

----------------------------------------------------------------------------
(* 2.py: the record, and extract_isr.                                       *)

Groups == {"OneView", "Server", "Firmware Update", "Install set Response", "Components"}

initialize_dictionary ==
    [g \in Groups |->
        CASE g = "OneView" -> [k \in {"OV version", "OV Type"} |-> ""]
          [] g = "Server" ->
                [k \in {"UUID", "Gen", "iLO Model", "OS", "OsVersion", "SUT Mode",
                        "SUT Service State", "SUT Running Version"} |-> ""]
          [] g = "Firmware Update" ->
                [k \in {"SPP Used", "Installation Method", "SUT Mode",
                        "SUT Service State", "SUT Running Version", "Policy",
                        "Install state", "Force"} |-> ""]
          [] g = "Install set Response" ->
                [k \in {"SPP", "Retry", "Dependency", "SUM Version"} |-> ""]
          [] g = "Components" -> <<>>]

\* Exceptions: [type, msg]; NoExc stands for a normal return.
NoExc == [type |-> "none", msg |-> ""]

Exc(t, m) == [type |-> t, msg |-> m]

\* Tokens of the JSON text embedded in installSetLogs.log.
HapiKey == "\"hapi\":"

InstallSetKey == "\"install_set\":"

NameSpp == "\"Name\": \"SPP-2024\""

Deps2 == "\"dependency_failures\": [\"dep1\", \"dep2\"]"

Deps0 == "\"dependency_failures\": []"

DepsBad == "\"dependency_failures\": [7]"

HapiScalar == "\"hapi\": 3"

NoteClose == "\"note\": \"}\""

NoteOpen == "\"note\": \"{\""

\* Tokens of the request object that extract_ilo_model decodes.
HostOSKey == "\"HostOS\":"

ServerInventoryKey == "\"server_inventory\":"

FwInventoryKey == "\"fw_inventory\":"

OsNameWindows == "\"OsName\": \"Windows\""

OsNameEmpty == "\"OsName\": \"\""

OsVersion2022 == "\"OsVersion\": \"2022\""

IdOne == "\"Id\": \"1\""

IdTwo == "\"Id\": \"2\""

NameIlo5 == "\"Name\": \"iLO 5\""

NameIlo6 == "\"Name\": \"iLO 6\""

NameRom == "\"Name\": \"System ROM\""

\* Keys whose value is the object that follows, keys whose value is the list
\* that follows, and complete "key": value pairs.
ObjKeys == {HapiKey, InstallSetKey, HostOSKey, ServerInventoryKey}

ArrayKeys == {FwInventoryKey}

ScalarMembers ==
    {NameSpp, Deps2, Deps0, DepsBad, HapiScalar, NoteClose, NoteOpen,
     OsNameWindows, OsNameEmpty, OsVersion2022, IdOne, IdTwo, NameIlo5, NameIlo6,
     NameRom}

KeyOf(tok) ==
    CASE tok = HapiKey -> "hapi"
      [] tok = HapiScalar -> "hapi"
      [] tok = InstallSetKey -> "install_set"
      [] tok = HostOSKey -> "HostOS"
      [] tok = ServerInventoryKey -> "server_inventory"
      [] tok = FwInventoryKey -> "fw_inventory"
      [] tok \in {NameSpp, NameIlo5, NameIlo6, NameRom} -> "Name"
      [] tok \in {OsNameWindows, OsNameEmpty} -> "OsName"
      [] tok = OsVersion2022 -> "OsVersion"
      [] tok \in {IdOne, IdTwo} -> "Id"
      [] tok \in {Deps2, Deps0, DepsBad} -> "dependency_failures"
      [] OTHER -> "note"

\* The string a "key": "value" token holds.
ValueOf(tok) ==
    CASE tok = NameSpp -> "SPP-2024"
      [] tok = OsNameWindows -> "Windows"
      [] tok = OsVersion2022 -> "2022"
      [] tok = IdOne -> "1"
      [] tok = IdTwo -> "2"
      [] tok = NameIlo5 -> "iLO 5"
      [] tok = NameIlo6 -> "iLO 6"
      [] tok = NameRom -> "System ROM"
      [] OTHER -> ""

\* The '{' and '}' characters of a token, as the character loop counts them:
\* a brace inside a string value counts like any other.
BraceDelta(tok) ==
    CASE tok \in {"{", NoteOpen} -> 1
      [] tok \in {"}", NoteClose} -> -1
      [] OTHER -> 0

\* The first index at or after i that holds no blank; Len(t) + 1 at the end.
SkipBlanks(t, i) == Min({j \in i..(Len(t) + 1) : j = Len(t) + 1 \/ t[j] # " "})

\* A member spelled out piece by piece, blanks allowed around the colon:
\* '"key": "word"', '"key" : ""', '"key": true'.  [ok, next, key, value].
\* (The texts of the model have no member with an empty key.)
QuotedMember(t, i) ==
    LET c == SkipBlanks(t, i + 3)
        v == SkipBlanks(t, c + 1)
        bad == [ok |-> FALSE, next |-> 0, key |-> "", value |-> ""]
    IN  IF i + 2 > Len(t) THEN bad
        ELSE IF t[i] # "\"" \/ t[i + 1] = "\"" \/ t[i + 2] # "\"" THEN bad
        ELSE IF c > Len(t) THEN bad
        ELSE IF t[c] # ":" \/ v > Len(t) THEN bad
        ELSE IF t[v] \in {"true", "false"}
            THEN [ok |-> TRUE, next |-> v + 1, key |-> t[i + 1], value |-> t[v]]
        ELSE IF t[v] # "\"" \/ v + 1 > Len(t) THEN bad
        ELSE IF t[v + 1] = "\""
            THEN [ok |-> TRUE, next |-> v + 2, key |-> t[i + 1], value |-> ""]
        ELSE IF v + 2 > Len(t) THEN bad
        ELSE IF t[v + 2] = "\""
            THEN [ok |-> TRUE, next |-> v + 3, key |-> t[i + 1], value |-> t[v + 1]]
        ELSE bad

\* json.loads on a token sequence: an object is '{' members '}', members are
\* separated by ','; a list is '[' elements ']'.  The result lists every key
\* with its path: [path, tok]; tok = "{" marks a value that is an object,
\* tok = "[" one that is a list; the elements of a list have the path of the
\* list followed by their index.  (The texts of the model repeat no key
\* within an object.)
ParseFail == [ok |-> FALSE, next |-> 0, items |-> {}]

\* The parse r of a nested value, recorded under path p with marker tok.
Nested(r, p, tok) ==
    IF r.ok
    THEN [ok |-> TRUE, next |-> r.next,
          items |-> r.items \cup {[path |-> p, tok |-> tok]}]
    ELSE ParseFail

\* The parse of one member or element followed by the parse of the rest.
Joined(one, rest) ==
    IF rest.ok
    THEN [ok |-> TRUE, next |-> rest.next, items |-> one.items \cup rest.items]
    ELSE ParseFail

Scalar(next, p, tok) ==
    [ok |-> TRUE, next |-> next, items |-> {[path |-> p, tok |-> tok]}]

QuotedScalar(m, path) ==
    IF m.ok THEN Scalar(m.next, Append(path, m.key), m.value) ELSE ParseFail

RECURSIVE ParseObj(_, _, _), ParseMember(_, _, _), ParseMembers(_, _, _),
          MembersAfter(_, _, _), ParseArray(_, _, _), ParseElement(_, _, _),
          ParseElements(_, _, _, _), ElementsAfter(_, _, _, _)
ParseObj(t, i, path) ==
    IF i + 1 > Len(t) THEN ParseFail
    ELSE IF t[i] # "{" THEN ParseFail
    ELSE IF t[i + 1] = "}" THEN [ok |-> TRUE, next |-> i + 2, items |-> {}]
    ELSE ParseMembers(t, i + 1, path)

ParseMember(t, i, path) ==
    IF i > Len(t) THEN ParseFail
    ELSE IF t[i] \in ScalarMembers THEN Scalar(i + 1, Append(path, KeyOf(t[i])), t[i])
    ELSE IF t[i] \in ObjKeys
        THEN Nested(ParseObj(t, i + 1, Append(path, KeyOf(t[i]))),
                    Append(path, KeyOf(t[i])), "{")
    ELSE IF t[i] \in ArrayKeys
        THEN Nested(ParseArray(t, i + 1, Append(path, KeyOf(t[i]))),
                    Append(path, KeyOf(t[i])), "[")
    ELSE IF t[i] = "\"" THEN QuotedScalar(QuotedMember(t, i), path)
    ELSE ParseFail

ParseMembers(t, i, path) == MembersAfter(t, ParseMember(t, i, path), path)

MembersAfter(t, one, path) ==
    IF ~one.ok THEN ParseFail
    ELSE IF one.next > Len(t) THEN ParseFail
    ELSE IF t[one.next] = "}"
        THEN [ok |-> TRUE, next |-> one.next + 1, items |-> one.items]
    ELSE IF t[one.next] = ","
        THEN Joined(one, ParseMembers(t, one.next + 1, path))
    ELSE ParseFail

ParseArray(t, i, path) ==
    IF i + 1 > Len(t) THEN ParseFail
    ELSE IF t[i] # "[" THEN ParseFail
    ELSE IF t[i + 1] = "]" THEN [ok |-> TRUE, next |-> i + 2, items |-> {}]
    ELSE ParseElements(t, i + 1, path, 1)

\* An element is an object or the number 7.
ParseElement(t, i, here) ==
    IF i > Len(t) THEN ParseFail
    ELSE IF t[i] = "7" THEN Scalar(i + 1, here, "7")
    ELSE Nested(ParseObj(t, i, here), here, "{")

ParseElements(t, i, path, k) ==
    ElementsAfter(t, ParseElement(t, i, Append(path, ToString(k))), path, k)

ElementsAfter(t, one, path, k) ==
    IF ~one.ok THEN ParseFail
    ELSE IF one.next > Len(t) THEN ParseFail
    ELSE IF t[one.next] = "]"
        THEN [ok |-> TRUE, next |-> one.next + 1, items |-> one.items]
    ELSE IF t[one.next] = ","
        THEN Joined(one, ParseElements(t, one.next + 1, path, k + 1))
    ELSE ParseFail

\* json.loads(json_str): the whole text must be one object.
WholeText(t, r) == IF r.ok /\ r.next = Len(t) + 1 THEN r ELSE ParseFail

json_loads(t) == WholeText(t, ParseObj(t, 1, <<>>))

\* d.get(key, {}) on decoded data: "absent", "{", "[", or the scalar's token.
Lookup(items, path) ==
    IF \E e \in items : e.path = path
    THEN (CHOOSE e \in items : e.path = path).tok
    ELSE "absent"

IsDict(items, path) == Lookup(items, path) \in {"absent", "{"}

\* ", ".join(list) for the lists of the dependency_failures tokens.
join_dependency_failures(tok) ==
    CASE tok = Deps2 -> "dep1, dep2"
      [] OTHER -> ""

\* The ordered positions of the uuid in the text (re.finditer).
uuid_positions_of(content, server_uuid) ==
    LET S == {i \in 1..Len(content) : content[i] = server_uuid}
    IN  [k \in 1..Cardinality(S) |->
            CHOOSE x \in S : Cardinality({y \in S : y < x}) = k - 1]

second_match_first_mutant(uuid_positions) == uuid_positions[1]

\* second_match_pos = uuid_positions[1] (0-based index 1)
second_match_pos_of(uuid_positions) == uuid_positions[2]

\* Braces opened minus braces closed in t[a..b].
Depth(t, a, b) ==
    Cardinality({i \in a..b : BraceDelta(t[i]) = 1})
        - Cardinality({i \in a..b : BraceDelta(t[i]) = -1})

NoSpan == [some |-> FALSE, start |-> 0, end |-> 0, cut |-> FALSE]

\* The brace-balancing loop from json_start: it stops at the first '}' that
\* brings brace_count to 0, else runs to the end of the text.  cut = TRUE when
\* the span begins or ends at a brace inside a string value, i.e. in the middle
\* of a token.
balance_span(content, json_start) ==
    LET closing == {e \in json_start..Len(content) : Depth(content, json_start, e) = 0}
        last == IF closing = {} THEN Len(content) ELSE Min(closing)
    IN  [some |-> TRUE, start |-> json_start, end |-> last,
         cut |-> content[json_start] = NoteOpen
                 \/ (closing # {} /\ content[last] = NoteClose)]

\* Lines 185-191: the four writes, in order; a payload of the wrong shape
\* raises part-way.
populate_isr(info_dict, items) ==
    LET deps == Lookup(items, <<"hapi", "dependency_failures">>)
        name == Lookup(items, <<"hapi", "install_set", "Name">>)
        d1 == [info_dict EXCEPT !["Install set Response"]["SPP"] =
                   IF name = NameSpp THEN "SPP-2024" ELSE ""]
        d2 == [d1 EXCEPT !["Install set Response"]["Retry"] = "No"]
        joined == join_dependency_failures(deps)
        d3 == [d2 EXCEPT !["Install set Response"]["Dependency"] =
                   IF joined = "" THEN "None" ELSE joined]
        d4 == [d3 EXCEPT !["Install set Response"]["SUM Version"] = "sum service"]
    IN  IF ~IsDict(items, <<"hapi">>) \/ ~IsDict(items, <<"hapi", "install_set">>)
        THEN [dict |-> info_dict,
              exc |-> Exc("AttributeError", "object has no attribute 'get'")]
        ELSE IF deps = DepsBad
        THEN [dict |-> d2,
              exc |-> Exc("TypeError", "sequence item 0: expected str instance")]
        ELSE [dict |-> d4, exc |-> NoExc]

\* extract_isr: [dict, exc, span].  exc # NoExc is the exception it re-raises.
extract_isr(folder_exists, log_file, info_dict) ==
    LET server_uuid == info_dict["Server"]["UUID"]
        content == log_file.data
        uuid_positions == uuid_positions_of(content, server_uuid)
        second_match_pos == second_match_pos_of(uuid_positions)
        json_start ==
            LET hits == {i \in second_match_pos..Len(content) : BraceDelta(content[i]) = 1}
            IN  IF hits = {} THEN 0 ELSE Min(hits)
        span == balance_span(content, json_start)
        json_str == SubSeq(content, span.start, span.end)
        isr_data == IF span.cut THEN ParseFail ELSE json_loads(json_str)
        Fail(e, sp) == [dict |-> info_dict, exc |-> e, span |-> sp]
    IN  IF server_uuid = ""
        THEN Fail(Exc("ValueError", "Server UUID not found in info_dict"), NoSpan)
        ELSE IF ~folder_exists
        THEN Fail(Exc("ValueError", "UUID folder not found in serverlogs directory"), NoSpan)
        ELSE IF log_file.st = "missing"
        THEN Fail(Exc("FileNotFoundError", "Log file not found"), NoSpan)
        ELSE IF log_file.st = "error"
        THEN Fail(Exc("OSError", "read failed"), NoSpan)
        ELSE IF Len(uuid_positions) < 2
        THEN Fail(Exc("ValueError", "Second UUID match not found in the log file."), NoSpan)
        ELSE IF json_start = 0
        THEN Fail(Exc("ValueError", "No JSON object found after second UUID."), NoSpan)
        ELSE IF ~isr_data.ok
        THEN Fail(Exc("ValueError", "Failed to decode JSON."), span)
        ELSE LET r == populate_isr(info_dict, isr_data.items)
             IN  [dict |-> r.dict, exc |-> r.exc, span |-> span]

ExtractIsr ==
    /\ isr_pc = "start"
    /\ LET r == extract_isr(isr_folder, isr_log, isr_dict)
       IN  /\ isr_dict' = r.dict
           /\ isr_exc' = r.exc
           /\ isr_span' = r.span
    /\ isr_pc' = "done"
    /\ UNCHANGED <<isr_log, isr_folder, isr_before>>
    /\ UNCHANGED NotIsr

----------------------------------------------------------------------------
(* Inputs of extract_isr.                                                   *)

MaxIsrSegs == 3

Uuid1 == "0a1b2c3d-0000-4000-8000-000000000001"

Uuid2 == "0a1b2c3d-0000-4000-8000-000000000002"

GoodResponse ==
    <<"{", HapiKey, "{", InstallSetKey, "{", NameSpp, "}", ",", Deps2, "}", "}">>

BadDepsResponse ==
    <<"{", HapiKey, "{", InstallSetKey, "{", NameSpp, "}", ",", DepsBad, "}", "}">>

\* Pieces installSetLogs.log is made of, as extract_isr reads it.
IsrSegments ==
    {<<Uuid1>>, <<Uuid2>>, <<"INFO">>,
     <<Uuid1, "{", "}">>,               \* the uuid with its request object
     GoodResponse, BadDepsResponse,
     <<"{", "}">>,
     <<"{", HapiKey, "{">>,             \* the text ends inside the object
     <<"{", "INFO", "}">>,              \* balanced, not JSON
     <<"{", NoteClose, "}">>,           \* a '}' inside a string value
     <<"{", NoteOpen, "}">>,            \* a '{' inside a string value
     <<"{", HapiScalar, "}">>,
     <<"}">>}

IsrTexts == {Flatten(ss) : ss \in SeqsUpTo(IsrSegments, MaxIsrSegs)}

\* The record at the call: the uuid is set, the response group holds what the
\* server's own JSON file supplied (nothing, or earlier values).
WithIsrGroup(d, v) ==
    [d EXCEPT !["Install set Response"] = [k \in DOMAIN @ |-> v]]

WithUuid(d, u) == [d EXCEPT !["Server"]["UUID"] = u]

IsrDicts(u) == {WithIsrGroup(WithUuid(initialize_dictionary, u), v) : v \in {"", "earlier"}}

InitIsr ==
    /\ \/ /\ isr_folder = TRUE
          /\ isr_dict \in IsrDicts(Uuid1)
          /\ isr_log \in {OkText(t) : t \in IsrTexts}
       \/ /\ isr_folder \in BOOLEAN
          /\ isr_dict \in IsrDicts(Uuid1) \cup IsrDicts("")
          /\ isr_log \in {NoText("missing"), NoText("error"),
                          OkText(<<Uuid1, Uuid1>> \o GoodResponse)}
    /\ isr_before = isr_dict
    /\ isr_exc = NoExc
    /\ isr_span = NoSpan
    /\ isr_pc = "start"
    /\ ClsIdle /\ DepIdle /\ FwIdle /\ MainIdle /\ ConnIdle /\ TypIdle /\ SutIdle /\ ClIdle /\ MstIdle /\ OrchIdle

NextIsr == ExtractIsr

SpecIsr == InitIsr /\ [][NextIsr]_vars

----------------------------------------------------------------------------
(* Properties of extract_isr.                                               *)

IsBrace(tok) == tok \in {"{", NoteOpen}

\* p is the second occurrence of the record's uuid in the text.
IsSecondOccurrence(t, u, p) ==
    /\ p \in 1..Len(t) /\ t[p] = u
    /\ Cardinality({i \in 1..(p - 1) : t[i] = u}) = 1

\* After the second occurrence there is an object whose braces balance:
\* counting every '{' and '}' character from the first '{' on (the balance
\* the code and the claim speak of), the count returns to zero.
BalancedObjectAfterSecond(t, u) ==
    \E p \in 1..Len(t) :
        /\ IsSecondOccurrence(t, u, p)
        /\ \E a \in p..Len(t) : \E b \in a..Len(t) :
              /\ IsBrace(t[a])
              /\ \A i \in p..(a - 1) : ~IsBrace(t[i])
              /\ Depth(t, a, b) = 0

\* C6: for a text with the uuid twice and a balanced object after the second
\* occurrence, the decoded span starts at the first '{' at or after the second
\* occurrence, ends where the count of '{' minus '}' first returns to zero,
\* and the count is positive at every proper prefix.
C6_SpanAfterSecondOccurrence ==
    (/\ isr_pc = "done" /\ isr_log.st = "ok" /\ isr_folder
     /\ isr_before["Server"]["UUID"] = Uuid1
     /\ BalancedObjectAfterSecond(isr_log.data, Uuid1)) =>
        LET t == isr_log.data
            p == CHOOSE q \in 1..Len(t) : IsSecondOccurrence(t, Uuid1, q)
        IN  /\ isr_span.some
            /\ isr_span.start >= p
            /\ IsBrace(t[isr_span.start])
            /\ \A i \in p..(isr_span.start - 1) : ~IsBrace(t[i])
            /\ Depth(t, isr_span.start, isr_span.end) = 0
            /\ \A e \in isr_span.start..(isr_span.end - 1) :
                  Depth(t, isr_span.start, e) > 0

\* C6 witness: an object follows the first occurrence too, and the call
\* decoded the one after the second occurrence.
C6_Witness ==
    /\ isr_pc = "done" /\ isr_log.st = "ok" /\ isr_exc = NoExc
    /\ \E a \in 1..Len(isr_log.data) :
          /\ isr_log.data[a] = "{"
          /\ Cardinality({i \in 1..a : isr_log.data[i] = Uuid1}) = 1
    /\ isr_span.some
    /\ Cardinality({i \in 1..isr_span.start : isr_log.data[i] = Uuid1}) = 2
    /\ isr_dict["Install set Response"]["SPP"] = "SPP-2024"

----------------------------------------------------------------------------
(* 2.py: process_dependency_failure_json.                                   *)

\* A key that the decoded JSON does not have.
Absent == "<absent>"

\* The entry the loop starts from for each item of sequence_details.
empty_component_dict ==
    [k \in {"Installed Version", "To Version", "DeviceClass", "TargetGUID", "FileName"}
        |-> ""]

\* The value the loop over component["InstalledVersion"] leaves in the entry:
\* every element that has the key overwrites the entry, so the last such
\* element stands.
installed_field(installed_versions, key) ==
    LET having == {i \in 1..Len(installed_versions) : installed_versions[i][key] # Absent}
    IN  IF having = {} THEN "" ELSE installed_versions[Max(having)][key]

\* Lines 305-325 for one well-formed item.
component_dict_of(component) ==
    [empty_component_dict EXCEPT
        !["To Version"] =
            IF component.PackageVersion # Absent THEN component.PackageVersion ELSE @,
        !["FileName"] =
            IF component.Filename # Absent THEN component.Filename ELSE @,
        !["Installed Version"] = installed_field(component.InstalledVersion, "Version"),
        !["TargetGUID"] = installed_field(component.InstalledVersion, "Target")]

\* Line 300: info_dict["Components"] = []
components_kept_mutant(info_dict) == info_dict

clear_components(info_dict) == [info_dict EXCEPT !["Components"] = <<>>]

\* Lines 293-297.
install_set_fields(info_dict, install_set) ==
    LET d1 == IF install_set.Name # Absent
              THEN [info_dict EXCEPT !["Install set Response"]["SPP"] = install_set.Name]
              ELSE info_dict
    IN  IF install_set.Description # Absent
        THEN [d1 EXCEPT !["Install set Response"]["Dependency"] = install_set.Description]
        ELSE d1

\* The whole function: [dict, ret].  An exception anywhere in the body is
\* caught by the one handler and gives ret = FALSE, with whatever the body had
\* written so far.
process_dependency_failure_json(file, info_dict) ==
    IF file.st # "ok" THEN [dict |-> info_dict, ret |-> FALSE]
    ELSE
        LET data == file.data
            d1 == IF data.install_set.kind = "dict"
                  THEN install_set_fields(info_dict, data.install_set)
                  ELSE info_dict
            d2 == clear_components(d1)
            items == data.sequence_details
            bad == {k \in 1..Len(items) : ~items[k].dict}
            n == IF bad = {} THEN Len(items) ELSE Min(bad) - 1
            d3 == [d2 EXCEPT !["Components"] =
                       @ \o [k \in 1..n |-> component_dict_of(items[k])]]
        IN  IF data.install_set.kind = "number"
            THEN [dict |-> info_dict, ret |-> FALSE]
            ELSE [dict |-> d3, ret |-> bad = {}]

MaxRuns == 2

ProcessDependencyFailureJson ==
    /\ dep_runs < MaxRuns
    /\ LET r == process_dependency_failure_json(dep_file, dep_dict)
       IN  /\ dep_dict' = r.dict
           /\ dep_ret' = r.ret
           /\ dep_first' = IF dep_runs = 0 THEN r.dict["Components"] ELSE dep_first
    /\ dep_runs' = dep_runs + 1
    /\ UNCHANGED <<dep_file, dep_before>>
    /\ UNCHANGED NotDep

----------------------------------------------------------------------------
(* Inputs of process_dependency_failure_json.                               *)

MaxItems == 2

InstalledVersionLists ==
    {<<>>,
     <<[Version |-> "1.0", Target |-> "guid-a"]>>,
     <<[Version |-> "1.0", Target |-> "guid-a"], [Version |-> "1.5", Target |-> "guid-b"]>>,
     <<[Version |-> "1.0", Target |-> "guid-a"], [Version |-> Absent, Target |-> "guid-b"]>>,
     <<[Version |-> Absent, Target |-> Absent], [Version |-> "1.5", Target |-> "guid-b"]>>}

\* An item that is not a JSON object: every use of it raises TypeError.
MalformedItem ==
    [dict |-> FALSE, PackageVersion |-> Absent, Filename |-> Absent,
     InstalledVersion |-> <<>>]

SequenceItems ==
    {[dict |-> TRUE, PackageVersion |-> pv, Filename |-> "ilo5_302.fwpkg",
      InstalledVersion |-> iv] :
        pv \in {Absent, "3.02"}, iv \in InstalledVersionLists}
    \cup {MalformedItem}

InstallSets ==
    {[kind |-> "absent", Name |-> Absent, Description |-> Absent],
     [kind |-> "number", Name |-> Absent, Description |-> Absent],
     [kind |-> "dict", Name |-> "SPP-2024", Description |-> Absent],
     [kind |-> "dict", Name |-> Absent, Description |-> "baseline"]}

\* A document without sequence_details behaves as one with an empty list:
\* the loop body never runs.
DependencyPayloads ==
    {[install_set |-> i, sequence_details |-> sd] :
        i \in InstallSets, sd \in SeqsUpTo(SequenceItems, MaxItems)}

DependencyFiles ==
    {[st |-> "ok", data |-> pl] : pl \in DependencyPayloads}
    \cup {[st |-> "missing", data |-> <<>>], [st |-> "error", data |-> <<>>]}

\* An entry left in Components by something that ran before the call.
EarlierComponent == [empty_component_dict EXCEPT !["FileName"] = "earlier.rpm"]

InitDep ==
    /\ dep_file \in DependencyFiles
    /\ dep_dict \in {WithUuid(initialize_dictionary, Uuid1),
                     [WithUuid(initialize_dictionary, Uuid1)
                         EXCEPT !["Components"] = <<EarlierComponent>>]}
    /\ dep_before = dep_dict
    /\ dep_first = <<>>
    /\ dep_ret = FALSE
    /\ dep_runs = 0
    /\ ClsIdle /\ IsrIdle /\ FwIdle /\ MainIdle /\ ConnIdle /\ TypIdle /\ SutIdle /\ ClIdle /\ MstIdle /\ OrchIdle

NextDep == ProcessDependencyFailureJson

SpecDep == InitDep /\ [][NextDep]_vars

----------------------------------------------------------------------------
(* Properties of process_dependency_failure_json.                           *)

FirstOr(installed_versions, key) ==
    IF installed_versions[1][key] = Absent THEN "" ELSE installed_versions[1][key]

\* C9: each component's Installed Version and TargetGUID come from the FIRST
\* element of the item's InstalledVersion list; later elements have no
\* influence.
C9_FirstInstalledVersion ==
    (dep_runs >= 1 /\ dep_file.st = "ok" /\ dep_ret) =>
        \A k \in 1..Len(dep_file.data.sequence_details) :
            LET iv == dep_file.data.sequence_details[k].InstalledVersion
            IN  iv # <<>> =>
                  /\ dep_dict["Components"][k]["Installed Version"] = FirstOr(iv, "Version")
                  /\ dep_dict["Components"][k]["TargetGUID"] = FirstOr(iv, "Target")

\* Components as they were when the latest call began.
ComponentsBeforeCall ==
    IF dep_runs = 1 THEN dep_before["Components"] ELSE dep_first

\* C16: replacement is atomic.  After a call that returned True, Components
\* is the complete list, one entry built from each item of the payload; after
\* a call that returned False it is exactly the list that was there when the
\* call began, never an emptied or partly built one.
C16_AtomicReplacement ==
    dep_runs >= 1 =>
        IF dep_ret
        THEN dep_dict["Components"] =
                [k \in 1..Len(dep_file.data.sequence_details) |->
                    component_dict_of(dep_file.data.sequence_details[k])]
        ELSE dep_dict["Components"] = ComponentsBeforeCall

----------------------------------------------------------------------------
(* 2.py: extract_firmware_log_info.                                         *)

\* The text of a captured group.  The logs of the model hold one-word values,
\* so a group is empty or one token.
Text(group) ==
    IF group = <<>> THEN ""
    ELSE IF Len(group) = 1 THEN group[1]
    ELSE "<several words>"

Has(line, tok) == \E i \in 1..Len(line) : line[i] = tok

BaselineToken == "The selected baseline"

CompliantTrue == "is absaroka compliant = true"

\* re.search(r'The selected baseline (.*?) is absaroka compliant = true'):
\* the blanks on both sides of the group need a word between the two phrases.
baseline_match(line) ==
    {p \in (1..Len(line)) \X (1..Len(line)) :
        /\ line[p[1]] = BaselineToken /\ line[p[2]] = CompliantTrue
        /\ p[1] + 1 < p[2]
        /\ \A i \in 1..(p[1] - 1) :
              ~(line[i] = BaselineToken
                /\ \E j \in (i + 2)..Len(line) : line[j] = CompliantTrue)
        /\ \A j \in (p[1] + 2)..(p[2] - 1) : line[j] # CompliantTrue}

baseline_group1(line) ==
    LET p == CHOOSE q \in baseline_match(line) : TRUE
    IN  Text(SubSeq(line, p[1] + 1, p[2] - 1))

SutStatusToken == "Successfully got SUT status from server via RIS for"

\* f"Successfully got SUT status from server via RIS for {uuid}" in line
sut_status_line(line, uuid) ==
    \E i \in 1..(Len(line) - 1) : line[i] = SutStatusToken /\ line[i + 1] = uuid

\* re.search(r'\[(.*?)\]', line): the first '[' that has a ']' after it, up to
\* the nearest such ']'.  <<0, 0>> when there is none.
bracket_section(line) ==
    LET opens == {i \in 1..Len(line) :
                     line[i] = "[" /\ \E j \in (i + 1)..Len(line) : line[j] = "]"}
        a == Min(opens)
        b == Min({j \in (a + 1)..Len(line) : line[j] = "]"})
    IN  IF opens = {} THEN <<0, 0>> ELSE <<a, b>>

\* Tokens holding the letter a character class excludes.
TokensWithS == {"Service", "State:", "AutoStage", "#SUT"}

TokensWithV == {"Version:"}

TokensWithT == {"Type:", "#SUT"}

\* re.search(key + r' (<class>*?)' + stop) on the section: the leftmost key
\* from which the nearest stop is reached over tokens of the class.
\* [found, text].
field_between(section, key, stop, excluded) ==
    LET starts == {i \in 1..Len(section) :
                     /\ section[i] = key
                     /\ \E j \in (i + 1)..Len(section) :
                           /\ section[j] = stop
                           /\ \A k \in (i + 1)..(j - 1) :
                                 section[k] # stop /\ section[k] \notin excluded}
        i == Min(starts)
        j == Min({k \in (i + 1)..Len(section) : section[k] = stop})
    IN  IF starts = {} THEN [found |-> FALSE, text |-> ""]
        ELSE [found |-> TRUE, text |-> Text(SubSeq(section, i + 1, j - 1))]

\* The three sub-patterns of extract_firmware_log_info (lines 248-260).
mode_match(section) == field_between(section, "Mode:", "Service", {})

state_match(section) == field_between(section, "State:", "Version:", TokensWithV)

version_match(section) == field_between(section, "Version:", "Type:", TokensWithT)

\* The baseline test without its last word: any compliance value is taken.
spp_any_value_mutant(line, spp_used) ==
    LET at == {i \in 1..(Len(line) - 2) : line[i] = BaselineToken}
    IN  IF at # {} THEN line[Min(at) + 1] ELSE spp_used

\* Lines 233-236: the two substring tests, the pattern and its group; a line
\* that fails one of them leaves the local as it is.
spp_used_after(line, spp_used) ==
    IF Has(line, BaselineToken) /\ Has(line, CompliantTrue)
       /\ baseline_match(line) # {}
    THEN baseline_group1(line)
    ELSE spp_used

\* The first loop (lines 232-260): every matching line overwrites the local,
\* so the last matching line stands.  Result of one local after all lines.
RECURSIVE first_loop(_, _, _)
first_loop(lines, uuid, acc) ==
    IF lines = <<>> THEN acc
    ELSE
        LET line == Head(lines)
            a1 == [acc EXCEPT !.spp_used = spp_used_after(line, @)]
            sec == bracket_section(line)
            section == SubSeq(line, sec[1] + 1, sec[2] - 1)
            m == mode_match(section)
            st == state_match(section)
            v == version_match(section)
            a2 == IF sut_status_line(line, uuid) /\ sec # <<0, 0>>
                  THEN [a1 EXCEPT
                          !.sut_mode = IF m.found THEN m.text ELSE @,
                          !.sut_service_state = IF st.found THEN st.text ELSE @,
                          !.sut_running_version = IF v.found THEN v.text ELSE @]
                  ELSE a1
        IN  first_loop(Tail(lines), uuid, a2)

FwBaselineToken == "FirmwareDriverBaselineSettings on server"

\* Tokens of the form "State": "<value>", and the value each holds.
StateTokens == {"\"State\": \"Activated\"", "\"State\": \"Failed\"", "\"State\": \"\""}

StateValue(tok) ==
    CASE tok = "\"State\": \"Activated\"" -> "Activated"
      [] tok = "\"State\": \"Failed\"" -> "Failed"
      [] OTHER -> ""

\* re.search(r'FirmwareDriverBaselineSettings on server .*? is (.*)', line):
\* the index of the "is" that ends the lazy group, 0 when the line does not
\* match.  ' is ' needs text between the phrase and "is", and a blank after
\* "is", which the last word of a line does not have.
install_state_is(line) ==
    LET starts == {i \in 1..Len(line) :
                     /\ line[i] = FwBaselineToken
                     /\ \E j \in (i + 2)..(Len(line) - 1) : line[j] = "is"}
        i == Min(starts)
    IN  IF starts = {} THEN 0
        ELSE Min({j \in (i + 2)..(Len(line) - 1) : line[j] = "is"})

\* Lines 269-271 on group(1): the first "State": "<value>" of it, or "Unknown".
nested_state(tail) ==
    LET hits == {i \in 1..Len(tail) : tail[i] \in StateTokens}
    IN  IF hits = {} THEN "Unknown" ELSE StateValue(tail[Min(hits)])

\* The lines the second loop stops at: marker and uuid in the line, and the
\* pattern matches.
install_state_lines(lines, uuid) ==
    {k \in 1..Len(lines) :
        /\ Has(lines[k], FwBaselineToken) /\ Has(lines[k], uuid)
        /\ install_state_is(lines[k]) # 0}

\* for line in reversed(lines): the first hit from the end.
pick_first_mutant(hits) == Min(hits)

pick_from_end(hits) == Max(hits)

\* Lines 263-272.
install_state_of(lines, uuid) ==
    LET hits == install_state_lines(lines, uuid)
        line == lines[pick_from_end(hits)]
    IN  IF hits = {} THEN ""
        ELSE nested_state(SubSeq(line, install_state_is(line) + 1, Len(line)))

\* The whole function: the record after the call.  A file that cannot be read
\* is caught by the handler and nothing is written.
extract_firmware_log_info(log_file, uuid, info_dict) ==
    IF log_file.st # "ok" THEN info_dict
    ELSE
        LET lines == log_file.lines
            locals == first_loop(lines, uuid,
                          [spp_used |-> "", sut_mode |-> "", sut_service_state |-> "",
                           sut_running_version |-> ""])
            install_state == install_state_of(lines, uuid)
        IN  [info_dict EXCEPT
                !["Firmware Update"]["SPP Used"] = locals.spp_used,
                !["Firmware Update"]["SUT Mode"] = locals.sut_mode,
                !["Firmware Update"]["SUT Service State"] = locals.sut_service_state,
                !["Firmware Update"]["SUT Running Version"] = locals.sut_running_version,
                !["Server"]["SUT Mode"] = locals.sut_mode,
                !["Server"]["SUT Service State"] = locals.sut_service_state,
                !["Server"]["SUT Running Version"] = locals.sut_running_version,
                !["Firmware Update"]["Install state"] = install_state]

ExtractFirmwareLogInfo ==
    /\ fw_pc = "start"
    /\ fw_dict' = extract_firmware_log_info(fw_log, fw_dict["Server"]["UUID"], fw_dict)
    /\ fw_pc' = "done"
    /\ UNCHANGED <<fw_log, fw_before>>
    /\ UNCHANGED NotFw

----------------------------------------------------------------------------
(* Inputs of extract_firmware_log_info.                                     *)

MaxFwLines == 3

SutLine(u) ==
    <<SutStatusToken, u, ",", "[", "Mode:", "AutoStage", "Service", "State:", "Disabled",
      "Version:", "5.2.0.0", "Type:", "#SUT", "]">>

\* Lines of the per-server log of server u; v is another server.
FwLines(u, v) ==
    {<<BaselineToken, "SPP-2024", CompliantTrue>>,
     <<"INFO", BaselineToken, "SPP-2025", CompliantTrue, "for", u>>,
     <<BaselineToken, "SPP-2023", "is absaroka compliant = false">>,
     <<BaselineToken, CompliantTrue>>,
     SutLine(u),
     <<FwBaselineToken, u, "is", "\"State\": \"Activated\"">>,
     <<FwBaselineToken, u, "is", "\"State\": \"Failed\"">>,
     <<FwBaselineToken, u, "is", "\"State\": \"\"">>,
     <<FwBaselineToken, u, "is", "pending">>,
     <<FwBaselineToken, u, "unchanged">>,
     <<FwBaselineToken, u, "is">>,
     <<FwBaselineToken, v, "is", "\"State\": \"Failed\"">>,
     <<"INFO">>}

WithFirmwareGroup(d, v) ==
    [d EXCEPT !["Firmware Update"] = [k \in DOMAIN @ |-> v]]

InitFw ==
    /\ fw_log \in {OkLines(ls) : ls \in SeqsUpTo(FwLines(Uuid1, Uuid2), MaxFwLines)}
                  \cup {NoLines("missing"), NoLines("error")}
    /\ fw_dict \in {WithFirmwareGroup(WithUuid(initialize_dictionary, Uuid1), v) :
                       v \in {"", "earlier"}}
    /\ fw_before = fw_dict
    /\ fw_pc = "start"
    /\ ClsIdle /\ IsrIdle /\ DepIdle /\ MainIdle /\ ConnIdle /\ TypIdle /\ SutIdle /\ ClIdle /\ MstIdle /\ OrchIdle

NextFw == ExtractFirmwareLogInfo

SpecFw == InitFw /\ [][NextFw]_vars

----------------------------------------------------------------------------
(* Properties of extract_firmware_log_info.                                 *)

InstallState == fw_dict["Firmware Update"]["Install state"]

\* The first "State": "<value>" among the given tokens, "Unknown" without one.
FirstStateOr(toks, default) ==
    IF \E i \in 1..Len(toks) : toks[i] \in StateTokens
    THEN StateValue(toks[CHOOSE i \in 1..Len(toks) :
                            /\ toks[i] \in StateTokens
                            /\ \A j \in 1..(i - 1) : toks[j] \notin StateTokens])
    ELSE default

\* Lines holding the marker phrase and the uuid.
MarkerLines ==
    {k \in 1..Len(fw_log.lines) :
        Has(fw_log.lines[k], FwBaselineToken) /\ Has(fw_log.lines[k], Uuid1)}

\* C10 as stated: Install state comes from the last line holding the marker
\* phrase and the uuid; it is that line's nested "State" value, "Unknown"
\* without one, and never empty when there is such a line.
C10_LastMarkerLine ==
    (fw_pc = "done" /\ fw_log.st = "ok" /\ MarkerLines # {}) =>
        /\ InstallState = FirstStateOr(fw_log.lines[Max(MarkerLines)], "Unknown")
        /\ InstallState # ""

\* Marker lines in which the phrase is followed, after some text, by " is "
\* and more text: the lines 'FirmwareDriverBaselineSettings on server .*? is (.*)'
\* matches.
IsLines ==
    {k \in MarkerLines :
        \E i, j \in 1..Len(fw_log.lines[k]) :
            /\ fw_log.lines[k][i] = FwBaselineToken
            /\ fw_log.lines[k][j] = "is"
            /\ i + 2 <= j /\ j < Len(fw_log.lines[k])}

\* C10 amended: Install state comes from the last marker line of the form
\* '... on server <text> is <text>'; it is the first nested "State" value of
\* the text after " is ", "Unknown" without one; it is empty only if that
\* value is empty or no line has the form; no earlier line affects it.
C10_LastMatchingLine ==
    (fw_pc = "done" /\ fw_log.st = "ok") =>
        IF IsLines = {} THEN InstallState = ""
        ELSE LET line == fw_log.lines[Max(IsLines)]
                 rest == SubSeq(line, install_state_is(line) + 1, Len(line))
             IN  /\ InstallState = FirstStateOr(rest, "Unknown")
                 /\ InstallState = "" => Has(rest, "\"State\": \"\"")

\* C10 witness: the last matching line has no nested State, an earlier one
\* has, and the field holds the sentinel.
C10_Witness ==
    /\ fw_pc = "done" /\ fw_log.st = "ok"
    /\ Cardinality(IsLines) >= 2
    /\ Has(fw_log.lines[Min(IsLines)], "\"State\": \"Activated\"")
    /\ ~\E i \in 1..Len(fw_log.lines[Max(IsLines)]) :
            fw_log.lines[Max(IsLines)][i] \in StateTokens
    /\ InstallState = "Unknown"

\* C11: a recovery that finds nothing never changes a field that already
\* holds a non-empty value: no field of Server or Firmware Update that was
\* non-empty when extract_firmware_log_info began is empty when it returns.
C11_PopulatedValuesKept ==
    fw_pc = "done" =>
        \A g \in {"Server", "Firmware Update"} :
            \A k \in DOMAIN fw_before[g] :
                fw_before[g][k] # "" => fw_dict[g][k] # ""

----------------------------------------------------------------------------
(* 2.py: the helpers main calls besides the three above.                    *)

\* read_version_file, with main's os.path.exists test: the content of the
\* file; "" stands for None too, both fail the test `if version:`.
read_version_file(file) == IF file.st = "ok" THEN file.data ELSE ""

\* read_model_number: the text after '=' of the first line that starts with
\* 'MODEL_NUMBER ='; "" stands for None.
read_model_number(file) ==
    LET hits == {k \in 1..Len(file.lines) :
                    file.lines[k] # <<>> /\ file.lines[k][1] = "MODEL_NUMBER ="}
    IN  IF file.st # "ok" THEN ""
        ELSE IF hits = {} THEN ""
        ELSE Text(Tail(file.lines[Min(hits)]))

\* Where the value starts for an occurrence of '"<key>"\s*:\s*' at i; 0 when
\* there is no occurrence at i.
value_start(content, key, i) ==
    LET c == SkipBlanks(content, i + 3)
    IN  IF ~IsAt(content, <<"\"", key, "\"">>, i) THEN 0
        ELSE IF c > Len(content) THEN 0
        ELSE IF content[c] # ":" THEN 0
        ELSE SkipBlanks(content, c + 1)

\* re.search(r'"update_type"\s*:\s*"([^"]+)"', content): [found, text] of the
\* leftmost occurrence whose value is a non-empty quoted text.
install_method_match(content) ==
    LET closing(v) == {e \in (v + 2)..Len(content) :
                          /\ content[e] = "\""
                          /\ \A k \in (v + 1)..(e - 1) : content[k] # "\""}
        hits == {i \in 1..Len(content) :
                    LET v == value_start(content, "update_type", i)
                    IN  /\ v # 0 /\ v <= Len(content)
                        /\ content[v] = "\""
                        /\ closing(v) # {}}
        v0 == value_start(content, "update_type", Min(hits))
    IN  IF hits = {} THEN [found |-> FALSE, text |-> ""]
        ELSE [found |-> TRUE,
              text |-> Text(SubSeq(content, v0 + 1, Min(closing(v0)) - 1))]

\* re.search(r'"<key>"\s*:\s*(true|false)', content)
boolean_match(content, key) ==
    LET hits == {i \in 1..Len(content) :
                    LET v == value_start(content, key, i)
                    IN  /\ v # 0 /\ v <= Len(content)
                        /\ content[v] \in {"true", "false"}}
    IN  IF hits = {} THEN [found |-> FALSE, text |-> ""]
        ELSE [found |-> TRUE,
              text |-> content[value_start(content, key, Min(hits))]]

\* str.capitalize on "true" / "false"
capitalize(word) == IF word = "true" THEN "True" ELSE "False"

\* extract_installset_info: the record after the call; a file that cannot be
\* read is caught by the handler.
extract_installset_info(file, info_dict) ==
    IF file.st # "ok" THEN info_dict
    ELSE
        LET content == Flatten(file.lines)
            install_method_m == install_method_match(content)
            force_match == boolean_match(content, "rewrite")
            downgrade_match == boolean_match(content, "downgrade")
        IN  [info_dict EXCEPT
                !["Firmware Update"]["Installation Method"] =
                    IF install_method_m.found THEN install_method_m.text ELSE @,
                !["Firmware Update"]["Force"] =
                    IF force_match.found THEN capitalize(force_match.text) ELSE @,
                !["Firmware Update"]["Policy"] =
                    IF downgrade_match.found
                    THEN (IF downgrade_match.text = "true"
                          THEN "Exact Match" ELSE "LowerThanBaseline")
                    ELSE @]

RequestToken == "Request = "

\* The members of the object or list at path.
ItemsUnder(items, path) ==
    {e \in items : Len(e.path) = Len(path) + 1
                   /\ SubSeq(e.path, 1, Len(path)) = path}

\* d.get(key, "") where the value is a string.
StringAt(items, path) ==
    IF Lookup(items, path) = "absent" THEN "" ELSE ValueOf(Lookup(items, path))

\* Lines 106-111: the generation for an iLO model name, "" when no branch
\* of the if/elif chain applies.
generation_of(ilo_model) ==
    CASE ilo_model = "iLO 5" -> "Gen10"
      [] ilo_model = "iLO 6" -> "Gen11"
      [] ilo_model = "iLO 7" -> "Gen12"
      [] OTHER -> ""

\* Lines 99-114, from item k of the n items of fw_inventory: [dict, exc].
\* Every item with "Id": "1" and a non-empty Name writes the model, so the last
\* such item stands; an item that is not an object raises at item.get.
RECURSIVE fw_inventory_loop(_, _, _, _)
fw_inventory_loop(items, k, n, info_dict) ==
    LET fw == <<"hapi", "server_inventory", "fw_inventory">>
        item == Append(fw, ToString(k))
        ilo_model == StringAt(items, Append(item, "Name"))
        d1 == [info_dict EXCEPT !["Server"]["iLO Model"] = ilo_model]
        d2 == IF generation_of(ilo_model) = "" THEN d1
              ELSE [d1 EXCEPT !["Server"]["Gen"] = generation_of(ilo_model)]
    IN  IF k > n THEN [dict |-> info_dict, exc |-> NoExc]
        ELSE IF Lookup(items, item) # "{"
        THEN [dict |-> info_dict,
              exc |-> Exc("AttributeError", "object has no attribute 'get'")]
        ELSE IF StringAt(items, Append(item, "Id")) = "1" /\ ilo_model # ""
        THEN fw_inventory_loop(items, k + 1, n, d2)
        ELSE fw_inventory_loop(items, k + 1, n, info_dict)

\* Lines 84-117 on the decoded request: [dict, exc].
ilo_request(info_dict, items) ==
    LET attr == Exc("AttributeError", "object has no attribute 'get'")
        host == <<"hapi", "HostOS">>
        os_name == StringAt(items, Append(host, "OsName"))
        os_version == StringAt(items, Append(host, "OsVersion"))
        d1 == IF Lookup(items, host) = "{" /\ os_name # ""
              THEN [info_dict EXCEPT !["Server"]["OS"] = os_name,
                                     !["Server"]["OsVersion"] = os_version]
              ELSE info_dict
        fw == <<"hapi", "server_inventory", "fw_inventory">>
        n == Cardinality(ItemsUnder(items, fw))
    IN  IF ~IsDict(items, <<"hapi">>) THEN [dict |-> info_dict, exc |-> attr]
        ELSE IF ~IsDict(items, host) THEN [dict |-> info_dict, exc |-> attr]
        ELSE IF ~IsDict(items, <<"hapi", "server_inventory">>)
        THEN [dict |-> d1, exc |-> attr]
        ELSE IF Lookup(items, fw) \notin {"absent", "["}
        THEN [dict |-> d1, exc |-> Exc("TypeError", "object is not iterable")]
        ELSE fw_inventory_loop(items, 1, n, d1)

\* The text after the first 'Request = ' of a line.
request_json_str(line) ==
    SubSeq(line, Find(line, RequestToken, 1) + 1, Len(line))

\* extract_ilo_model: [dict, ret].  The first line with 'Request = ' whose
\* rest decodes is processed and ends the call; lines that do not decode are
\* passed over.
ilo_rebuilds_server_mutant(file, info_dict) ==
    IF file.st # "ok" THEN [dict |-> info_dict, ret |-> FALSE]
    ELSE
        LET decodable == {k \in 1..Len(file.lines) :
                             /\ Has(file.lines[k], RequestToken)
                             /\ json_loads(request_json_str(file.lines[k])).ok}
            request_data == json_loads(request_json_str(file.lines[Min(decodable)]))
            r == ilo_request([info_dict EXCEPT !["Server"]["UUID"] = ""],
                             request_data.items)
        IN  IF decodable = {} THEN [dict |-> info_dict, ret |-> FALSE]
            ELSE [dict |-> r.dict, ret |-> r.exc = NoExc]

extract_ilo_model(file, info_dict) ==
    IF file.st # "ok" THEN [dict |-> info_dict, ret |-> FALSE]
    ELSE
        LET decodable == {k \in 1..Len(file.lines) :
                             /\ Has(file.lines[k], RequestToken)
                             /\ json_loads(request_json_str(file.lines[k])).ok}
            request_data == json_loads(request_json_str(file.lines[Min(decodable)]))
            r == ilo_request(info_dict, request_data.items)
        IN  IF decodable = {} THEN [dict |-> info_dict, ret |-> FALSE]
            ELSE [dict |-> r.dict, ret |-> r.exc = NoExc]

\* re.findall(rf"Successfully got SUT status from server via RIS for {uuid},
\* \[(.*?)\]", log_content)[0]: the section of the first line that has the
\* phrase, the uuid, ', [' and a ']' after it.  <<found, section>>.
first_sut_section(lines, uuid) ==
    LET starts(line) ==
            {i \in 1..(Len(line) - 4) :
                /\ SubSeq(line, i, i + 3) = <<SutStatusToken, uuid, ",", "[">>
                /\ \E j \in (i + 4)..Len(line) : line[j] = "]"}
        hits == {k \in 1..Len(lines) : starts(lines[k]) # {}}
        line0 == lines[Min(hits)]
        i0 == Min(starts(line0))
        j0 == Min({j \in (i0 + 4)..Len(line0) : line0[j] = "]"})
    IN  IF hits = {} THEN <<FALSE, <<>>>>
        ELSE <<TRUE, SubSeq(line0, i0 + 4, j0 - 1)>>

\* extract_sut_info_from_log_content: [exc, sut_info].  Line 378 reads
\* mode_match.group(1) for the version, which raises when the mode pattern
\* did not match.
extract_sut_info_from_log_content(lines, uuid) ==
    LET m == first_sut_section(lines, uuid)
        sut_section == m[2]
        mode_m == field_between(sut_section, "Mode:", "State:", TokensWithS)
        state_m == field_between(sut_section, "State:", "Version:", TokensWithV)
        version_m == field_between(sut_section, "Version:", "Type:", TokensWithT)
        sut_info ==
            [k \in {"SUT Mode", "SUT Service State", "SUT Running Version"} |->
                CASE k = "SUT Mode" /\ m[1] /\ mode_m.found -> mode_m.text
                  [] k = "SUT Service State" /\ m[1] /\ state_m.found -> state_m.text
                  [] k = "SUT Running Version" /\ m[1] /\ version_m.found -> mode_m.text
                  [] OTHER -> "Not Available"]
    IN  IF m[1] /\ version_m.found /\ ~mode_m.found
        THEN [exc |-> Exc("AttributeError", "'NoneType' object has no attribute 'group'"),
              sut_info |-> <<>>]
        ELSE [exc |-> NoExc, sut_info |-> sut_info]

\* Lines 544-559 of main: the fallback on uuid.log, with its handler.
sut_fallback_server_only_mutant(uuid_log, uuid, info_dict) ==
    LET r == extract_sut_info_from_log_content(uuid_log.lines, uuid)
    IN  IF uuid_log.st # "ok" THEN info_dict
        ELSE IF r.exc # NoExc THEN info_dict
        ELSE [info_dict EXCEPT
                !["Server"]["SUT Mode"] = r.sut_info["SUT Mode"],
                !["Server"]["SUT Service State"] = r.sut_info["SUT Service State"],
                !["Server"]["SUT Running Version"] = r.sut_info["SUT Running Version"]]

sut_fallback(uuid_log, uuid, info_dict) ==
    LET r == extract_sut_info_from_log_content(uuid_log.lines, uuid)
    IN  IF uuid_log.st # "ok" THEN info_dict
        ELSE IF r.exc # NoExc THEN info_dict
        ELSE [info_dict EXCEPT
                !["Server"]["SUT Mode"] = r.sut_info["SUT Mode"],
                !["Server"]["SUT Service State"] = r.sut_info["SUT Service State"],
                !["Server"]["SUT Running Version"] = r.sut_info["SUT Running Version"],
                !["Firmware Update"]["SUT Mode"] = r.sut_info["SUT Mode"],
                !["Firmware Update"]["SUT Service State"] = r.sut_info["SUT Service State"],
                !["Firmware Update"]["SUT Running Version"] =
                    r.sut_info["SUT Running Version"]]

max_retries == 3

\* connect_to_mongodb from attempt `attempt` (0-based, as in the code) on:
\* [ok, attempts].  outcomes[k] is what the k-th connection attempt meets:
\* "ok", "down" (ConnectionFailure, ServerSelectionTimeoutError) or "other".
RECURSIVE connect_to_mongodb(_, _)
connect_to_mongodb(outcomes, attempt) ==
    IF outcomes[attempt + 1] = "ok" THEN [ok |-> TRUE, attempts |-> attempt + 1]
    ELSE IF outcomes[attempt + 1] = "down" /\ attempt < max_retries - 1
    THEN connect_to_mongodb(outcomes, attempt + 1)
    ELSE [ok |-> FALSE, attempts |-> attempt + 1]

\* json.load and info_dict.update(json_data), lines 497-500: [dict, exc].
\* update replaces whole top-level groups.
load_json_file(file, info_dict) ==
    IF file.st # "ok"
    THEN [dict |-> info_dict, exc |-> Exc("JSONDecodeError", "cannot load the JSON file")]
    ELSE IF ~file.data.dict
    THEN [dict |-> info_dict, exc |-> Exc("ValueError", "not a mapping")]
    ELSE [dict |-> [g \in Groups |->
                       IF g \in DOMAIN file.data.groups
                       THEN file.data.groups[g] ELSE info_dict[g]],
          exc |-> NoExc]

\* Lines 529-533 without the handler: [dict, calls, exc, raised].
isr_unhandled_mutant(serverlogs_dir, folder_exists, log_file, info_dict) ==
    LET r == extract_isr(folder_exists,
                 [st |-> log_file.st, data |-> Flatten(log_file.lines)], info_dict)
    IN  IF serverlogs_dir /\ log_file.st # "missing"
        THEN [dict |-> r.dict, calls |-> 1, exc |-> r.exc, raised |-> r.exc # NoExc]
        ELSE [dict |-> info_dict, calls |-> 0, exc |-> NoExc, raised |-> FALSE]

\* Lines 529-533 of main: extract_isr is called once when serverlogs and the
\* install-set log exist, and what it raises is caught and printed.
\* [dict, calls, exc, raised]: exc is what extract_isr raised, raised tells
\* whether anything leaves the statement.
try_extract_isr(serverlogs_dir, folder_exists, log_file, info_dict) ==
    LET r == extract_isr(folder_exists,
                 [st |-> log_file.st, data |-> Flatten(log_file.lines)], info_dict)
    IN  IF serverlogs_dir /\ log_file.st # "missing"
        THEN [dict |-> r.dict, calls |-> 1, exc |-> r.exc, raised |-> FALSE]
        ELSE [dict |-> info_dict, calls |-> 0, exc |-> NoExc, raised |-> FALSE]

----------------------------------------------------------------------------
(* 2.py: main, one action per statement group of the source.                *)

json_file == machine.json_files[main_index]

server == machine.servers[json_file]

NoIsrCall ==
    [calls |-> 0, before |-> initialize_dictionary["Install set Response"],
     exc |-> NoExc]

\* Lines 430-475: the directory test, the shared version and model, the glob.
MainStart ==
    /\ main_pc = "start"
    /\ main_shared' = [version |-> read_version_file(machine.version_file),
                       model_number |-> read_model_number(machine.properties_file)]
    /\ main_pc' = IF ~machine.output_dir \/ machine.json_files = <<>>
                  THEN "returned" ELSE "connect"
    /\ UNCHANGED <<machine, main_index, main_dict, main_trace, main_isr, main_saved,
                   main_handoffs, main_stored, main_results, main_sut_log>>
    /\ UNCHANGED NotMain

\* Lines 477-486.
MainConnect ==
    /\ main_pc = "connect"
    /\ main_pc' = IF connect_to_mongodb(machine.mongo, 0).ok THEN "load" ELSE "returned"
    /\ main_index' = 1
    /\ UNCHANGED <<machine, main_shared, main_dict, main_trace, main_isr, main_saved,
                   main_handoffs, main_stored, main_results, main_sut_log>>
    /\ UNCHANGED NotMain

\* The pass goes on with the record the pass before it left.
carried_record_mutant(previous) == previous

\* Line 495: info_dict = initialize_dictionary(), a new record whatever the
\* pass before left in the name.
fresh_record(previous) == initialize_dictionary

\* Lines 489-503: the loop head, the fresh record and the server's JSON file.
\* A file that does not load ends the pass at once (`continue`).
MainLoadJson ==
    /\ main_pc = "load"
    /\ IF main_index > Len(machine.json_files)
       THEN /\ main_pc' = "close"
            /\ UNCHANGED <<main_index, main_dict, main_trace, main_isr, main_sut_log>>
       ELSE LET r == load_json_file(server.json, fresh_record(main_dict))
            IN  /\ main_dict' = r.dict
                /\ main_trace' = <<>>
                /\ main_isr' = NoIsrCall
                /\ main_sut_log' = "none"
                /\ IF r.exc = NoExc
                   THEN main_pc' = "shared" /\ UNCHANGED main_index
                   ELSE main_pc' = "load" /\ main_index' = main_index + 1
    /\ UNCHANGED <<machine, main_shared, main_saved,
                   main_handoffs, main_stored, main_results>>
    /\ UNCHANGED NotMain

\* Lines 505-516.
MainSharedFields ==
    /\ main_pc = "shared"
    /\ main_dict' =
          [main_dict EXCEPT
              !["OneView"]["OV version"] =
                  IF main_shared.version # "" THEN main_shared.version ELSE @,
              !["OneView"]["OV Type"] =
                  IF main_shared.model_number # "" THEN main_shared.model_number ELSE @]
    /\ main_trace' = Append(main_trace, "shared")
    /\ main_pc' = "uuid"
    /\ UNCHANGED <<machine, main_shared, main_index, main_isr, main_saved,
                   main_handoffs, main_stored, main_results, main_sut_log>>
    /\ UNCHANGED NotMain

\* Lines 518-520.
MainSetUuid ==
    /\ main_pc = "uuid"
    /\ main_dict' = [main_dict EXCEPT !["Server"]["UUID"] = json_file]
    /\ main_trace' = Append(main_trace, "uuid")
    /\ main_pc' = "installset"
    /\ UNCHANGED <<machine, main_shared, main_index, main_isr, main_saved,
                   main_handoffs, main_stored, main_results, main_sut_log>>
    /\ UNCHANGED NotMain

\* Lines 522-526.
MainInstallsetInfo ==
    /\ main_pc = "installset"
    /\ main_dict' = IF machine.installset_log.st # "missing"
                    THEN extract_installset_info(machine.installset_log, main_dict)
                    ELSE main_dict
    /\ main_trace' = Append(main_trace, "installset")
    /\ main_pc' = "isr"
    /\ UNCHANGED <<machine, main_shared, main_index, main_isr, main_saved,
                   main_handoffs, main_stored, main_results, main_sut_log>>
    /\ UNCHANGED NotMain

\* Lines 528-533.
MainExtractIsr ==
    /\ main_pc = "isr"
    /\ LET r == try_extract_isr(machine.serverlogs_dir, server.folder,
                                machine.installset_log, main_dict)
       IN  /\ main_dict' = r.dict
           /\ main_isr' = [calls |-> main_isr.calls + r.calls,
                           before |-> main_dict["Install set Response"],
                           exc |-> r.exc]
           /\ main_pc' = IF r.raised THEN "crashed" ELSE "firmware"
    /\ main_trace' = Append(main_trace, "isr")
    /\ UNCHANGED <<machine, main_shared, main_index, main_saved,
                   main_handoffs, main_stored, main_results, main_sut_log>>
    /\ UNCHANGED NotMain

\* Lines 535-559: the log main opens for the SUT fields.  os.path.exists
\* picks the server's own log; uuid.log is opened only in the else branch.
sut_log_fallback_first_mutant(server_log, uuid_log) ==
    IF uuid_log.st # "missing" THEN "uuid.log"
    ELSE IF server_log.st # "missing" THEN "server log"
    ELSE "none"

sut_log_read(server_log, uuid_log) ==
    IF server_log.st # "missing" THEN "server log"
    ELSE IF uuid_log.st # "missing" THEN "uuid.log"
    ELSE "none"

\* Lines 535-559: the server's own log, else uuid.log.
MainFirmwareLog ==
    /\ main_pc = "firmware"
    /\ LET opened == sut_log_read(server.server_log, server.uuid_log)
       IN  /\ main_sut_log' = opened
           /\ main_dict' =
                 IF opened = "server log"
                 THEN extract_firmware_log_info(server.server_log, json_file, main_dict)
                 ELSE IF opened = "uuid.log"
                 THEN sut_fallback(server.uuid_log, json_file, main_dict)
                 ELSE main_dict
    /\ main_trace' = Append(main_trace, "firmware")
    /\ main_pc' = "ilo"
    /\ UNCHANGED <<machine, main_shared, main_index, main_isr, main_saved,
                   main_handoffs, main_stored, main_results>>
    /\ UNCHANGED NotMain

\* Lines 561-563.
ilo_skips_components_mutant ==
    /\ main_pc = "ilo"
    /\ main_dict' = IF machine.installset_log.st # "missing"
                    THEN extract_ilo_model(machine.installset_log, main_dict).dict
                    ELSE main_dict
    /\ main_trace' = Append(main_trace, "ilo")
    /\ main_pc' = "side file"
    /\ UNCHANGED <<machine, main_shared, main_index, main_isr, main_saved,
                   main_handoffs, main_stored, main_results, main_sut_log>>
    /\ UNCHANGED NotMain

MainIloModel ==
    /\ main_pc = "ilo"
    /\ main_dict' = IF machine.installset_log.st # "missing"
                    THEN extract_ilo_model(machine.installset_log, main_dict).dict
                    ELSE main_dict
    /\ main_trace' = Append(main_trace, "ilo")
    /\ main_pc' = "components"
    /\ UNCHANGED <<machine, main_shared, main_index, main_isr, main_saved,
                   main_handoffs, main_stored, main_results, main_sut_log>>
    /\ UNCHANGED NotMain

\* Lines 565-571.
MainDependency ==
    /\ main_pc = "components"
    /\ main_dict' =
          IF server.dependency.st # "missing"
          THEN process_dependency_failure_json(server.dependency, main_dict).dict
          ELSE main_dict
    /\ main_trace' = Append(main_trace, "components")
    /\ main_pc' = "side file"
    /\ UNCHANGED <<machine, main_shared, main_index, main_isr, main_saved,
                   main_handoffs, main_stored, main_results, main_sut_log>>
    /\ UNCHANGED NotMain

\* Lines 573-584: the side file; a failed write is caught and printed.
MainSaveSideFile ==
    /\ main_pc = "side file"
    /\ \E written \in BOOLEAN :
          main_saved' = IF written
                        THEN Append(main_saved, [uuid |-> json_file, record |-> main_dict])
                        ELSE main_saved
    /\ main_trace' = Append(main_trace, "side file")
    /\ main_pc' = "store"
    /\ UNCHANGED <<machine, main_shared, main_index, main_dict, main_isr,
                   main_handoffs, main_stored, main_results, main_sut_log>>
    /\ UNCHANGED NotMain

\* What insert_one and the read-back can meet.
InsertOutcomes ==
    {"ok", "raises", "unacknowledged, applied", "unacknowledged, dropped",
     "not read back"}

\* Lines 608-617: where main goes after insert_one.  Success falls off the end
\* of the loop body and the handler of a failure ends with `continue`: the
\* next json_file either way.
insert_abort_mutant(outcome) == IF outcome = "ok" THEN "load" ELSE "returned"

after_insert(outcome) == "load"

\* Lines 594-604: find_one({"_id": insert_result.inserted_id}) runs when
\* insert_one returned an acknowledged result; it reads the stored document.
reads_back(outcome) == outcome \in {"ok", "not read back"}

\* Lines 586-617: insert_one(info_dict), the acknowledgement test and the
\* find_one read-back; every failure is caught and the loop continues.  An
\* unacknowledged insert may or may not have reached the collection.
MainInsert ==
    /\ main_pc = "store"
    /\ main_handoffs' = Append(main_handoffs, main_dict)
    /\ \E outcome \in InsertOutcomes :
          /\ main_stored' =
                IF outcome \in {"ok", "unacknowledged, applied", "not read back"}
                THEN Append(main_stored, main_dict) ELSE main_stored
          /\ main_results' =
                Append(main_results, [uuid |-> json_file, outcome |-> outcome,
                                      find_one |-> reads_back(outcome)])
          /\ main_pc' = after_insert(outcome)
    /\ main_trace' = Append(main_trace, "store")
    /\ main_index' = main_index + 1
    /\ UNCHANGED <<machine, main_shared, main_dict, main_isr, main_saved, main_sut_log>>
    /\ UNCHANGED NotMain

\* Lines 619-637: close the connection, move the BUCKET_PREFIX directory.
MainClose ==
    /\ main_pc = "close"
    /\ main_pc' = "returned"
    /\ UNCHANGED <<machine, main_shared, main_index, main_dict, main_trace, main_isr,
                   main_saved,
                   main_handoffs, main_stored, main_results, main_sut_log>>
    /\ UNCHANGED NotMain

----------------------------------------------------------------------------
(* Inputs of main.                                                          *)

RequestBody(update_type) ==
    <<"{", HapiKey, "{">> \o KeyThen(update_type)
    \o <<",", "\"", "rewrite", "\"", ":", "true",
         ",", "\"", "downgrade", "\"", " ", ":", " ", "false",
         ",", HostOSKey, "{", OsNameWindows, ",", OsVersion2022, "}",
         ",", ServerInventoryKey, "{", FwInventoryKey,
         "[", "{", IdTwo, ",", NameRom, "}", ",", "{", IdOne, ",", NameIlo5, "}", "]",
         "}", "}", "}">>

\* A request whose OS has no version and whose inventory has a bad item.
LeanRequestBody ==
    <<"{", HapiKey, "{", HostOSKey, "{", OsNameWindows, "}",
      ",", ServerInventoryKey, "{", FwInventoryKey,
      "[", "{", IdOne, ",", NameIlo6, "}", ",", "7", "]", "}", "}", "}">>

RequestLine(u, body) == <<"INFO", u, RequestToken>> \o body

ResponseLine(u, body) == <<"INFO", u, "Response = ">> \o body

\* installSetLogs.log of a machine with servers u and v.
InstallSetLogs(u, v) ==
    {OkLines(<<RequestLine(u, RequestBody("Online")), ResponseLine(u, GoodResponse),
               RequestLine(v, RequestBody("Offline")), ResponseLine(v, GoodResponse)>>),
     \* the uuid once only
     OkLines(<<RequestLine(u, RequestBody("Online"))>>),
     \* nothing in braces after the second occurrence
     OkLines(<<RequestLine(u, RequestBody("Online")), <<"INFO", u, "done">>>>),
     \* the text ends inside the response
     OkLines(<<RequestLine(u, LeanRequestBody),
               <<"INFO", u, "Response = ", "{", HapiKey, "{">>>>),
     \* the response does not decode
     OkLines(<<RequestLine(u, <<"{", "INFO", "}">>),
               ResponseLine(u, <<"{", "INFO", "}">>),
               RequestLine(v, RequestBody("Offline")), ResponseLine(v, GoodResponse)>>),
     \* the response decodes, dependency_failures holds no strings
     OkLines(<<RequestLine(u, RequestBody("Online")),
               ResponseLine(u, BadDepsResponse)>>),
     OkLines(<<>>),
     NoLines("missing"),
     NoLines("error")}

\* The server's own JSON file: the decoded value, as the groups it replaces;
\* dict = FALSE is a document that is no object (a list).
NoGroups == [g \in {} |-> <<>>]

NoData == [dict |-> FALSE, groups |-> NoGroups]

\* LogExtraction.py: the structure written to <uuid>.json for every server.
\* Components holds one entry whose fields are all empty.
EMPTY_JSON_STRUCTURE ==
    [initialize_dictionary EXCEPT !["Components"] = <<empty_component_dict>>]

JsonFiles ==
    {[st |-> "ok", data |-> [dict |-> TRUE, groups |-> NoGroups]],
     [st |-> "ok", data |-> [dict |-> TRUE, groups |-> EMPTY_JSON_STRUCTURE]],
     [st |-> "ok",
      data |-> [dict |-> TRUE,
                groups |-> [g \in {"Install set Response"} |->
                               [k \in {"SPP", "Retry", "Dependency", "SUM Version"}
                                   |-> "earlier"]]]],
     [st |-> "ok", data |-> [dict |-> FALSE, groups |-> NoGroups]],
     [st |-> "error", data |-> NoData]}

ServerLogs(u, v) ==
    {OkLines(<<SutLine(u), <<BaselineToken, "SPP-2024", CompliantTrue>>,
               <<FwBaselineToken, u, "is", "\"State\": \"Activated\"">>>>),
     OkLines(<<<<FwBaselineToken, v, "is", "\"State\": \"Failed\"">>>>),
     NoLines("error")}

UuidLogs(u) ==
    {OkLines(<<SutLine(u)>>),
     OkLines(<<<<SutStatusToken, u, ",", "[", "Mode:", "auto", "State:", "Disabled",
                 "Version:", "5.2.0.0", "Type:", "#SUT", "]">>>>),
     OkLines(<<<<"INFO">>>>),
     NoLines("missing")}

DependencySamples ==
    {[st |-> "ok",
      data |-> [install_set |-> [kind |-> "dict", Name |-> "SPP-2024",
                                 Description |-> Absent],
                sequence_details |->
                    <<[dict |-> TRUE, PackageVersion |-> "3.02",
                       Filename |-> "ilo5_302.fwpkg",
                       InstalledVersion |->
                           <<[Version |-> "1.0", Target |-> "guid-a"]>>]>>]],
     [st |-> "ok",
      data |-> [install_set |-> [kind |-> "absent", Name |-> Absent,
                                 Description |-> Absent],
                sequence_details |-> <<MalformedItem>>]],
     [st |-> "error", data |-> <<>>],
     [st |-> "missing", data |-> <<>>]}

\* What serverlogs/<uuid> holds; without the folder none of its files exist.
NoFolder ==
    [folder |-> FALSE, server_log |-> NoLines("missing"),
     uuid_log |-> NoLines("missing"), dependency |-> [st |-> "missing", data |-> <<>>]]

ServerFolders(u, v) ==
    {[folder |-> TRUE, server_log |-> sl, uuid_log |-> NoLines("missing"),
      dependency |-> dp] : sl \in ServerLogs(u, v), dp \in DependencySamples}
    \cup {[folder |-> TRUE, server_log |-> NoLines("missing"), uuid_log |-> ul,
           dependency |-> [st |-> "missing", data |-> <<>>]] : ul \in UuidLogs(u)}
    \cup {[folder |-> TRUE, server_log |-> sl, uuid_log |-> OkLines(<<SutLine(u)>>),
           dependency |-> [st |-> "missing", data |-> <<>>]] :
              sl \in {s \in ServerLogs(u, v) : s.st = "error" \/ Len(s.lines) = 1}}
    \cup {NoFolder}

WithJson(f, j) ==
    [json |-> j, folder |-> f.folder, server_log |-> f.server_log,
     uuid_log |-> f.uuid_log, dependency |-> f.dependency]

ServerCases(u, v) == {WithJson(f, j) : f \in ServerFolders(u, v), j \in JsonFiles}

\* A plain server: empty JSON file, its own log, a dependency document.
PlainServer(u, v) ==
    WithJson(CHOOSE f \in ServerFolders(u, v) :
                 /\ f.server_log.st = "ok" /\ Len(f.server_log.lines) = 3
                 /\ f.dependency.st = "ok"
                 /\ f.dependency.data.install_set.kind = "dict",
             [st |-> "ok", data |-> [dict |-> TRUE, groups |-> NoGroups]])

Other(u) == IF u = Uuid1 THEN Uuid2 ELSE Uuid1

VersionFiles == {OkText("8.30"), OkText(""), NoText("missing")}

PropertiesFiles ==
    {OkLines(<<<<"MODEL_NUMBER =", "Synergy">>>>),
     OkLines(<<<<"INFO">>, <<"MODEL_NUMBER =">>, <<"MODEL_NUMBER =", "Synergy">>>>),
     NoLines("missing")}

MongoOutcomes == [1..max_retries -> {"ok", "down", "other"}]

PlainMachine ==
    [output_dir |-> TRUE,
     version_file |-> OkText("8.30"),
     properties_file |-> OkLines(<<<<"MODEL_NUMBER =", "Synergy">>>>),
     installset_log |-> CHOOSE f \in InstallSetLogs(Uuid1, Uuid2) :
                            f.st = "ok" /\ Len(f.lines) = 4
                            /\ f.lines[2] = ResponseLine(Uuid1, GoodResponse),
     serverlogs_dir |-> TRUE,
     json_files |-> <<Uuid1>>,
     servers |-> [u \in {Uuid1, Uuid2} |-> PlainServer(u, Other(u))],
     mongo |-> [k \in 1..max_retries |-> "ok"]]

\* One server, every install-set log with every state of the server's files.
OneServerMachines ==
    {[PlainMachine EXCEPT !.installset_log = f, !.servers[Uuid1] = c] :
        f \in InstallSetLogs(Uuid1, Uuid2), c \in ServerCases(Uuid1, Uuid2)}

\* Two servers in either order of the glob.
TwoServerMachines ==
    {[PlainMachine EXCEPT !.installset_log = f, !.json_files = o,
                          !.servers[Uuid1] = c1, !.servers[Uuid2] = c2] :
        f \in {g \in InstallSetLogs(Uuid1, Uuid2) : g.st = "ok" /\ Len(g.lines) >= 4},
        o \in {<<Uuid1, Uuid2>>, <<Uuid2, Uuid1>>},
        c1 \in {c \in ServerCases(Uuid1, Uuid2) : c.dependency.st # "ok"},
        c2 \in {PlainServer(Uuid2, Uuid1),
                WithJson(NoFolder, [st |-> "error", data |-> NoData])}}

\* The shared files, the directory, the glob and the store vary.
StartMachines ==
    {[PlainMachine EXCEPT !.version_file = vf, !.properties_file = pf, !.mongo = m] :
        vf \in VersionFiles, pf \in PropertiesFiles, m \in MongoOutcomes}
    \cup {[PlainMachine EXCEPT !.output_dir = FALSE],
          [PlainMachine EXCEPT !.json_files = <<>>],
          [PlainMachine EXCEPT !.serverlogs_dir = FALSE,
                               !.servers = [u \in {Uuid1, Uuid2} |->
                                               WithJson(NoFolder, PlainServer(u, u).json)]]}

InitMain ==
    /\ machine \in OneServerMachines \cup TwoServerMachines \cup StartMachines
    /\ main_pc = "start"
    /\ main_shared = [version |-> "", model_number |-> ""]
    /\ main_index = 0
    /\ main_dict = initialize_dictionary
    /\ main_trace = <<>>
    /\ main_isr = NoIsrCall
    /\ main_saved = <<>>
    /\ main_handoffs = <<>>
    /\ main_stored = <<>>
    /\ main_results = <<>>
    /\ main_sut_log = "none"
    /\ ClsIdle /\ IsrIdle /\ DepIdle /\ FwIdle /\ ConnIdle /\ TypIdle /\ SutIdle /\ ClIdle /\ MstIdle /\ OrchIdle

NextMain ==
    \/ MainStart
    \/ MainConnect
    \/ MainLoadJson
    \/ MainSharedFields
    \/ MainSetUuid
    \/ MainInstallsetInfo
    \/ MainExtractIsr
    \/ MainFirmwareLog
    \/ MainIloModel
    \/ MainDependency
    \/ MainSaveSideFile
    \/ MainInsert
    \/ MainClose

SpecMain == InitMain /\ [][NextMain]_vars

----------------------------------------------------------------------------
(* Properties of main.                                                      *)

\* The failures of extract_isr that C7 lists, by the message each raises:
\* fewer than two occurrences of the uuid; no '{' after the second one; a span
\* that does not decode, which is also how a text that ends before the brace
\* count returns to zero fails.
ListedIsrFailures ==
    {"Second UUID match not found in the log file.",
     "No JSON object found after second UUID.",
     "Failed to decode JSON."}

IsrFailedInPass == main_isr.calls >= 1 /\ main_isr.exc.msg \in ListedIsrFailures

PassSteps ==
    <<"shared", "uuid", "installset", "isr", "firmware", "ilo", "components",
      "side file", "store">>

\* main is inside the loop over json_files.
InLoop == main_pc \notin {"idle", "start", "connect", "close", "returned"}

\* The pass under way has run its last statement.
PassEnded == main_pc = "load" /\ main_trace # <<>> /\ main_trace[Len(main_trace)] = "store"

\* C7: extract_isr is called at most once in a pass; when the call fails for
\* one of the listed reasons, the four Install set Response fields are, right
\* after the call, what they were before it, nothing leaves main, the pass is
\* at one of the statements that follow (each of which runs whenever the pass
\* is at it), the steps run so far are the steps of a pass in their order, and
\* the pass ends by handing the record of that server to insert_one.
C7_IsrFailureIsLocal ==
    /\ main_pc # "idle" => main_isr.calls <= 1
    /\ (InLoop /\ IsrFailedInPass) =>
          /\ main_isr.calls = 1
          /\ main_pc # "crashed"
          /\ main_pc = "firmware" => main_dict["Install set Response"] = main_isr.before
          /\ \E n \in 4..Len(PassSteps) : main_trace = SubSeq(PassSteps, 1, n)
          /\ main_pc \in {"firmware", "ilo", "components", "side file", "store", "load"}
          /\ PassEnded =>
                /\ main_trace = PassSteps
                /\ main_handoffs # <<>>
                /\ main_handoffs[Len(main_handoffs)]["Server"]["UUID"]
                      = machine.json_files[main_index - 1]

\* C7 witness: a pass whose JSON file supplied earlier response values, whose
\* extract_isr call failed to decode the span, and which went on to the store.
C7_Witness ==
    /\ PassEnded
    /\ main_isr.calls = 1
    /\ main_isr.exc.msg = "Failed to decode JSON."
    /\ main_isr.before["SPP"] = "earlier"
    /\ main_handoffs # <<>>
    /\ main_handoffs[Len(main_handoffs)]["Install set Response"]["Retry"] = "earlier"

SutFields == {"SUT Mode", "SUT Service State", "SUT Running Version"}

\* The record and the server of the latest insert_one call.
LastHandoff == main_handoffs[Len(main_handoffs)]

LastUuid == main_results[Len(main_results)].uuid

\* The file has a line with the given phrase and the uuid.
Names(file, phrase, uuid) ==
    /\ file.st = "ok"
    /\ \E k \in 1..Len(file.lines) :
          Has(file.lines[k], phrase) /\ Has(file.lines[k], uuid)

\* C12: no recovery step lets an error leave the pass, and in the record
\* handed to insert_one a field whose recovery found nothing is empty: the SUT
\* fields of both groups when neither log of the server has a SUT status line
\* for its uuid, Install state when the server's log has no
\* FirmwareDriverBaselineSettings line for it ("Unknown" is for a line without
\* a nested State only).
C12_FailureLeavesDefaults ==
    /\ main_pc # "crashed"
    /\ PassEnded =>
          LET srv == machine.servers[LastUuid]
          IN  /\ main_trace = PassSteps
              /\ (/\ ~Names(srv.server_log, SutStatusToken, LastUuid)
                  /\ ~Names(srv.uuid_log, SutStatusToken, LastUuid)) =>
                    \A k \in SutFields :
                        /\ LastHandoff["Server"][k] = ""
                        /\ LastHandoff["Firmware Update"][k] = ""
              /\ ~Names(srv.server_log, FwBaselineToken, LastUuid) =>
                    LastHandoff["Firmware Update"]["Install state"] = ""

\* The SUT fields of Server equal the same-named fields of Firmware Update.
SutAgree(d) == \A k \in SutFields : d["Server"][k] = d["Firmware Update"][k]

\* C13: the three SUT fields of Server equal those of Firmware Update in the
\* record of the pass after every step, and in every record handed to
\* insert_one, whether <uuid>.log or uuid.log supplied them or nothing did.
C13_SutDuplicated ==
    /\ main_pc # "idle" => SutAgree(main_dict)
    /\ \A i \in 1..Len(main_handoffs) : SutAgree(main_handoffs[i])

\* C13 witness: a run that handed over two records, the first with SUT values
\* from uuid.log, the second with SUT values from the server's own log.
C13_Witness ==
    /\ Len(main_handoffs) = 2
    /\ machine.servers[main_results[1].uuid].server_log.st = "missing"
    /\ main_handoffs[1]["Server"]["SUT Mode"] = "auto"
    /\ main_handoffs[1]["Firmware Update"]["SUT Service State"] = "Disabled"
    /\ machine.servers[main_results[2].uuid].server_log.st = "ok"
    /\ main_handoffs[2]["Server"]["SUT Mode"] = "AutoStage"
    /\ main_handoffs[2]["Firmware Update"]["SUT Running Version"] = "5.2.0.0"

\* The statements of a pass that follow the assignment of Server.UUID.
AfterUuid ==
    {"installset", "isr", "firmware", "ilo", "components", "side file", "store"}

\* How many times the step occurs in the steps the pass has run.
TimesRun(step) == Cardinality({i \in 1..Len(main_trace) : main_trace[i] = step})

UuidHeld ==
    /\ main_pc \in AfterUuid =>
          /\ main_dict["Server"]["UUID"] = json_file
          /\ TimesRun("uuid") = 1
    /\ \A i \in 1..Len(main_handoffs) :
          main_handoffs[i]["Server"]["UUID"] = main_results[i].uuid

UuidKept ==
    main_pc \in AfterUuid =>
        main_dict'["Server"]["UUID"] = main_dict["Server"]["UUID"]

\* C14: in a pass Server.UUID is assigned once, the uuid of the server being
\* processed; from then on it is that uuid at every statement of the pass, no
\* later statement of the pass changes it, and each record handed to
\* insert_one carries the uuid of the server it was built for.
C14_UuidSetOnce == []UuidHeld /\ [][UuidKept]_vars

\* C14 witness: a pass whose later steps all wrote into the record (the
\* response, the firmware status, the iLO model, a component) has handed it
\* over with the uuid set at the start.
C14_Witness ==
    /\ PassEnded
    /\ LastHandoff["Server"]["UUID"] = LastUuid
    /\ LastUuid = machine.json_files[main_index - 1]
    /\ LastHandoff["Install set Response"]["SUM Version"] = "sum service"
    /\ LastHandoff["Firmware Update"]["Install state"] = "Activated"
    /\ LastHandoff["Server"]["iLO Model"] # ""
    /\ Len(LastHandoff["Components"]) = 1
    /\ LastHandoff["Components"][1]["FileName"] # ""

\* The entry of an item: it carries the item's file name and target version.
EntryOf(entry, item) ==
    /\ entry["FileName"] = (IF item.Filename = Absent THEN "" ELSE item.Filename)
    /\ entry["To Version"] =
          (IF item.PackageVersion = Absent THEN "" ELSE item.PackageVersion)

\* C15: in every record handed to insert_one, Components has one entry per
\* item of the server's sequence_details, in the items' order, and is empty
\* for a server without a DependencyFailure.json.
C15_ComponentsPerItem ==
    \A i \in 1..Len(main_handoffs) :
        LET dep == machine.servers[main_results[i].uuid].dependency
            components == main_handoffs[i]["Components"]
        IN  /\ (/\ dep.st = "ok"
                /\ \A k \in 1..Len(dep.data.sequence_details) :
                      dep.data.sequence_details[k].dict) =>
                  /\ Len(components) = Len(dep.data.sequence_details)
                  /\ \A k \in 1..Len(components) :
                        EntryOf(components[k], dep.data.sequence_details[k])
            /\ dep.st = "missing" => components = <<>>

\* The uuids of the records handed to insert_one, in order.
HandedUuids == [i \in 1..Len(main_handoffs) |-> main_handoffs[i]["Server"]["UUID"]]

\* C17: when main has returned from a batch whose output directory holds the
\* uuid-named JSON files json_files, it has handed insert_one one record for
\* each of them and no other: none skipped, none twice.
C17_OneRecordPerServer ==
    (main_pc = "returned" /\ machine.output_dir) =>
        /\ Len(main_handoffs) = Len(machine.json_files)
        /\ \A u \in {machine.json_files[k] : k \in 1..Len(machine.json_files)} :
              Cardinality({i \in 1..Len(HandedUuids) : HandedUuids[i] = u}) = 1

\* The server's JSON file decodes to an object, so that its pass begins.
Loads(u) ==
    /\ machine.servers[u].json.st = "ok"
    /\ machine.servers[u].json.data.dict

\* The first n of json_files whose passes begin, in order.
Processed(n) == SelectSeq(SubSeq(machine.json_files, 1, n), Loads)

\* One of the connection attempts made before the loop succeeds.
ConnectSucceeds ==
    \E k \in 1..max_retries :
        /\ machine.mongo[k] = "ok"
        /\ \A j \in 1..(k - 1) : machine.mongo[j] = "down"

StoredUuids == [i \in 1..Len(main_results) |-> main_results[i].uuid]

StoreFailed(i) == main_results[i].outcome # "ok"

\* C18: whatever the earlier insert_one calls met, the loop goes on.  At
\* every statement inside the loop, each json_file before the current one
\* whose pass began has had its insert_one call, in order, a failed call never
\* being the last thing main does; the pass under way runs the steps of a
\* pass in their order; and when main has returned, every json_file whose
\* pass began has had all steps and its own insert_one call.
C18_StoreFailureIsLocal ==
    /\ main_pc # "crashed"
    /\ InLoop =>
          /\ StoredUuids = Processed(main_index - 1)
          /\ Len(main_handoffs) = Len(main_results)
          /\ \E n \in 0..Len(PassSteps) : main_trace = SubSeq(PassSteps, 1, n)
          /\ PassEnded => main_trace = PassSteps
    /\ (main_pc \in {"close", "returned"} /\ machine.output_dir /\ ConnectSucceeds) =>
          /\ StoredUuids = Processed(Len(machine.json_files))
          /\ Len(main_handoffs) = Len(main_results)

\* C18 witness: main has returned from a batch of two servers; insert_one
\* raised for the first, and the second went through every step and was handed
\* to insert_one with what its logs gave.
C18_Witness ==
    /\ main_pc = "returned"
    /\ Len(main_results) = 2
    /\ main_results[1].outcome = "raises"
    /\ main_stored = <<main_handoffs[2]>>
    /\ main_handoffs[2]["Server"]["UUID"] = machine.json_files[2]
    /\ main_handoffs[2]["Firmware Update"]["Install state"] = "Activated"
    /\ Len(main_handoffs[2]["Components"]) = 1

\* The insert_one calls made for the uuid, as positions in main_results.
StoreAttempts(u) == {i \in 1..Len(main_results) : main_results[i].uuid = u}

\* C19: the store call for a uuid is made at most 3 times; a call that
\* succeeded is the last one for its uuid; and once the pass of a uuid is
\* over, a uuid whose latest call met a connectivity failure (insert_one
\* raised) has had all 3 attempts.
C19_BoundedStoreRetry ==
    \A u \in {main_results[i].uuid : i \in 1..Len(main_results)} :
        /\ Cardinality(StoreAttempts(u)) <= max_retries
        /\ \A i \in StoreAttempts(u) :
              main_results[i].outcome = "ok" => i = Max(StoreAttempts(u))
        /\ (/\ main_pc \in {"load", "close", "returned"}
            /\ main_results[Max(StoreAttempts(u))].outcome = "raises") =>
              Cardinality(StoreAttempts(u)) = max_retries

\* The groups of the record that a step of the pass may write.
MayWrite(step) ==
    CASE step = "shared" -> {"OneView"}
      [] step = "uuid" -> {"Server"}
      [] step = "installset" -> {"Firmware Update"}
      [] step = "isr" -> {"Install set Response"}
      [] step = "firmware" -> {"Firmware Update", "Server"}
      [] step = "ilo" -> {"Server"}
      [] step = "components" -> {"Components", "Install set Response"}
      [] OTHER -> {}

\* The steps the pass under way has run are the first steps of a pass, each
\* once, in the order of PassSteps.
StepsInOrder ==
    InLoop => \E n \in 0..Len(PassSteps) : main_trace = SubSeq(PassSteps, 1, n)

\* A change of the record is either the fresh record of a new pass or the
\* work of the one step that has just run, within the groups of that step; a
\* handoff comes after the component-list step and hands over the record as
\* that step left it.
StepWrites ==
    /\ main_dict' # main_dict =>
          \/ main_pc = "load"
          \/ /\ Len(main_trace') = Len(main_trace) + 1
             /\ main_trace' = Append(main_trace, main_trace'[Len(main_trace')])
             /\ \A g \in Groups :
                   main_dict'[g] # main_dict[g] =>
                       g \in MayWrite(main_trace'[Len(main_trace')])
    /\ main_handoffs' # main_handoffs =>
          /\ \E i \in 1..Len(main_trace) : main_trace[i] = "components"
          /\ main_trace' = PassSteps
          /\ main_handoffs' = Append(main_handoffs, main_dict)

\* C20: in every pass the steps run in the order shared metadata, uuid,
\* installation method/force/policy, install-set response, firmware/SUT
\* status, iLO model and OS, component list, each at most once, whether or not
\* a step found or wrote anything; each change of the record is made by the
\* step whose turn it is, in the groups that step owns; and the record is
\* handed to insert_one only after the component-list step.
C20_StepOrder == []StepsInOrder /\ [][StepWrites]_vars

\* C20 witness: a pass in which the install-set response step failed and the
\* firmware step had no log to read has still run every step in order and
\* handed the record over, with the parts the other steps wrote.
C20_Witness ==
    /\ PassEnded
    /\ main_trace = PassSteps
    /\ main_isr.calls = 1 /\ main_isr.exc # NoExc
    /\ machine.servers[LastUuid].server_log.st = "missing"
    /\ LastHandoff["OneView"]["OV version"] = "8.30"
    /\ LastHandoff["Server"]["UUID"] = LastUuid
    /\ LastHandoff["Firmware Update"]["Installation Method"] # ""
    /\ LastHandoff["Server"]["iLO Model"] # ""

\* The side file of the pass under way, when its write succeeded.
SideFileOf(u) ==
    {main_saved[i].record : i \in {j \in 1..Len(main_saved) : main_saved[j].uuid = u}}

\* No call of the store was followed by a read of the stored document.
NoReadBack == \A i \in 1..Len(main_results) : ~main_results[i].find_one

\* A handoff gives the store the record the side file of that uuid holds and
\* leaves the earlier handoffs as they were; after it the record changes only
\* when the next pass starts from its fresh record.
HandoffStep ==
    /\ main_handoffs' # main_handoffs =>
          /\ main_handoffs' = Append(main_handoffs, main_dict)
          /\ \A r \in SideFileOf(json_file) : r = main_dict
    /\ (main_trace # <<>> /\ main_trace[Len(main_trace)] = "store"
        /\ main_dict' # main_dict) => main_trace' = <<>>

\* C21: the handoff is final: the record insert_one receives is the record
\* just serialised to the side file, main makes no write to it afterwards,
\* and main does not read the stored record back.
C21_HandoffIsFinal == []NoReadBack /\ [][HandoffStep]_vars

\* The names of the baselines a log reports with the given compliance phrase:
\* the word between 'The selected baseline' and the phrase.
BaselinesReported(lines, phrase) ==
    UNION {{lines[k][i + 1] : i \in {j \in 1..(Len(lines[k]) - 2) :
                                       /\ lines[k][j] = BaselineToken
                                       /\ lines[k][j + 2] = phrase}} :
           k \in 1..Len(lines)}

SppUsed == fw_dict["Firmware Update"]["SPP Used"]

\* C22: after extract_firmware_log_info has read the server's log, SPP Used is
\* non-empty exactly when the log has a line 'The selected baseline <name> is
\* absaroka compliant = true', and then it is the <name> of such a line; a
\* baseline reported with another value is never taken.  A log that cannot be
\* read leaves SPP Used as it was, empty in a fresh record.
C22_BaselineCompliance ==
    fw_pc = "done" =>
        LET compliant == BaselinesReported(fw_log.lines, CompliantTrue)
        IN  IF fw_log.st = "ok"
            THEN /\ SppUsed # "" <=> compliant # {}
                 /\ SppUsed # "" => SppUsed \in compliant
            ELSE SppUsed = fw_before["Firmware Update"]["SPP Used"]

\* C22 witness: a log reporting one baseline as compliant = true and another
\* as compliant = false has been read, and the compliant one is SPP Used.
C22_Witness ==
    /\ fw_pc = "done" /\ fw_log.st = "ok"
    /\ BaselinesReported(fw_log.lines, CompliantTrue) = {"SPP-2025"}
    /\ BaselinesReported(fw_log.lines, "is absaroka compliant = false") = {"SPP-2023"}
    /\ fw_log.lines[Len(fw_log.lines)][1] = BaselineToken
    /\ Len(fw_log.lines[Len(fw_log.lines)]) = 3
    /\ SppUsed = "SPP-2025"

\* C23: in every pass that reached the store, when <uuid>/<uuid>.log exists
\* the SUT fields were read from it and uuid.log was not opened, so a server
\* log without a SUT status line for the uuid (or one that cannot be read)
\* leaves the SUT fields empty whatever uuid.log holds; uuid.log is opened
\* only when the server's own log is absent.
C23_SutSourcePriority ==
    PassEnded =>
        LET srv == machine.servers[LastUuid]
        IN  /\ srv.server_log.st # "missing" =>
                  /\ main_sut_log = "server log"
                  /\ ~Names(srv.server_log, SutStatusToken, LastUuid) =>
                        \A k \in SutFields :
                            /\ LastHandoff["Server"][k] = ""
                            /\ LastHandoff["Firmware Update"][k] = ""
            /\ main_sut_log = "uuid.log" =>
                  srv.server_log.st = "missing" /\ srv.uuid_log.st # "missing"
            /\ (srv.server_log.st = "missing" /\ srv.uuid_log.st # "missing") =>
                  main_sut_log = "uuid.log"

\* C23 witness: a pass ended for a server whose own log exists and has no SUT
\* status line while its uuid.log has one; the record has no SUT values.
C23_Witness ==
    /\ PassEnded
    /\ machine.servers[LastUuid].server_log.st = "ok"
    /\ ~Names(machine.servers[LastUuid].server_log, SutStatusToken, LastUuid)
    /\ Names(machine.servers[LastUuid].uuid_log, SutStatusToken, LastUuid)
    /\ main_sut_log = "server log"
    /\ LastHandoff["Server"]["SUT Mode"] = ""
    /\ LastHandoff["Firmware Update"]["SUT Running Version"] = ""

\* The record one pass makes for server u of the machine when nothing but the
\* server's own files and the machine's shared files is read, step by step
\* from a new record: no other server, no position in the glob.
WithShared(d) ==
    [d EXCEPT
        !["OneView"]["OV version"] =
            IF read_version_file(machine.version_file) # ""
            THEN read_version_file(machine.version_file) ELSE @,
        !["OneView"]["OV Type"] =
            IF read_model_number(machine.properties_file) # ""
            THEN read_model_number(machine.properties_file) ELSE @]

WithInstallSet(d) ==
    IF machine.installset_log.st = "missing" THEN d
    ELSE extract_installset_info(machine.installset_log, d)

WithIsr(u, d) ==
    try_extract_isr(machine.serverlogs_dir, machine.servers[u].folder,
                    machine.installset_log, d).dict

WithSut(u, d) ==
    IF machine.servers[u].server_log.st # "missing"
    THEN extract_firmware_log_info(machine.servers[u].server_log, u, d)
    ELSE IF machine.servers[u].uuid_log.st # "missing"
    THEN sut_fallback(machine.servers[u].uuid_log, u, d)
    ELSE d

WithIlo(d) ==
    IF machine.installset_log.st = "missing" THEN d
    ELSE extract_ilo_model(machine.installset_log, d).dict

WithComponents(u, d) ==
    IF machine.servers[u].dependency.st = "missing" THEN d
    ELSE process_dependency_failure_json(machine.servers[u].dependency, d).dict

RecordAlone(u) ==
    LET loaded == load_json_file(machine.servers[u].json, initialize_dictionary).dict
        shared == WithShared(loaded)
        named == WithUuid(shared, u)
        typed == WithInstallSet(named)
        answered == WithIsr(u, typed)
        probed == WithSut(u, answered)
        modelled == WithIlo(probed)
    IN  WithComponents(u, modelled)

\* The record just handed over is the record of its server alone.
RecordsAlone == PassEnded => LastHandoff = RecordAlone(LastUuid)

\* A pass starts from a record that holds nothing of the pass before it, and
\* the shared version and model are not written once they have been read.
FreshPass ==
    /\ (main_pc = "load" /\ main_pc' = "shared") =>
          /\ \A g \in Groups :
                main_dict'[g] =
                    IF g \in DOMAIN server.json.data.groups
                    THEN server.json.data.groups[g] ELSE initialize_dictionary[g]
          /\ main_trace' = <<>>
          /\ main_isr' = NoIsrCall
    /\ main_pc \notin {"idle", "start"} => main_shared' = main_shared

\* C24: the record a server's pass hands over is the same whatever the order
\* of the glob and whichever servers were processed before it; each pass
\* starts from a fresh record, and the only data the passes share, version and
\* model number, is read once before the first pass and never written after.
C24_PassesIndependent == []RecordsAlone /\ [][FreshPass]_vars

\* C24 witness: two records handed over, the second for a server with no
\* dependency document, after a first server whose pass filled Components.
C24_Witness ==
    /\ Len(main_handoffs) = 2
    /\ main_handoffs[1]["Components"] # <<>>
    /\ main_handoffs[1]["Firmware Update"]["SUT Mode"] = "AutoStage"
    /\ machine.servers[main_results[2].uuid].dependency.st = "missing"
    /\ machine.servers[main_results[2].uuid].server_log.st = "missing"
    /\ main_handoffs[2]["Components"] = <<>>
    /\ main_handoffs[2]["Firmware Update"]["SUT Mode"] = ""
    /\ main_handoffs[2]["OneView"]["OV version"] = main_handoffs[1]["OneView"]["OV version"]

----------------------------------------------------------------------------
(* 2.py: connect_to_mongodb, attempt by attempt.                            *)

\* The retry decision with the two except clauses merged: every failure is
\* retried.
retry_any_failure_mutant(outcome, attempt) ==
    IF outcome = "ok" THEN "returned"
    ELSE IF attempt < max_retries - 1 THEN "sleep"
    ELSE "raised"

\* Lines 395-421: where one attempt leaves the call.  The return of line 410,
\* the handler of ConnectionFailure and ServerSelectionTimeoutError (sleep
\* before another attempt, re-raise on the last one) and the handler of every
\* other exception (re-raise).
after_attempt(outcome, attempt) ==
    IF outcome = "ok" THEN "returned"
    ELSE IF outcome = "down" /\ attempt < max_retries - 1 THEN "sleep"
    ELSE "raised"

\* Lines 384-394: the environment.  quote_plus(None) raises TypeError when
\* MONGO_USER or MONGO_PASS is not set, before the loop.
ConnectStart ==
    /\ conn_pc = "start"
    /\ conn_pc' = IF conn_env THEN "try" ELSE "raised"
    /\ conn_attempt' = 0
    /\ UNCHANGED <<conn_env, conn_server, conn_events>>
    /\ UNCHANGED NotConn

\* Lines 395-421: one pass of the for loop up to its return, raise or sleep.
ConnectAttempt ==
    /\ conn_pc = "try"
    /\ conn_events' = Append(conn_events, conn_server[conn_attempt + 1])
    /\ conn_pc' = after_attempt(conn_server[conn_attempt + 1], conn_attempt)
    /\ UNCHANGED <<conn_env, conn_server, conn_attempt>>
    /\ UNCHANGED NotConn

\* Line 414: time.sleep(retry_delay), then the next value of attempt.
ConnectSleep ==
    /\ conn_pc = "sleep"
    /\ conn_events' = Append(conn_events, "sleep")
    /\ conn_attempt' = conn_attempt + 1
    /\ conn_pc' = "try"
    /\ UNCHANGED <<conn_env, conn_server>>
    /\ UNCHANGED NotConn

InitConnect ==
    /\ conn_env \in BOOLEAN
    /\ conn_server \in MongoOutcomes
    /\ conn_pc = "start"
    /\ conn_attempt = 0
    /\ conn_events = <<>>
    /\ ClsIdle /\ IsrIdle /\ DepIdle /\ FwIdle /\ MainIdle /\ TypIdle /\ SutIdle /\ ClIdle /\ MstIdle /\ OrchIdle

NextConnect ==
    \/ ConnectStart
    \/ ConnectAttempt
    \/ ConnectSleep

\* Each step of the call ends: the client waits at most
\* serverSelectionTimeoutMS for a server and sleep returns after retry_delay.
SpecConnect == InitConnect /\ [][NextConnect]_vars /\ WF_vars(NextConnect)

----------------------------------------------------------------------------
(* Properties of connect_to_mongodb.                                        *)

ConnAttempts == SelectSeq(conn_events, LAMBDA ev : ev # "sleep")

ConnLast == conn_events[Len(conn_events)]

\* Attempts and sleeps alternate; an attempt followed by anything failed with
\* a connection error and was followed by a sleep.
ConnAlternates ==
    \A i \in 1..Len(conn_events) :
        /\ (i % 2 = 0) <=> (conn_events[i] = "sleep")
        /\ i < Len(conn_events) /\ i % 2 = 1 => conn_events[i] = "down"

\* The last conjunct ties the call as main makes it in one step to the call
\* taken attempt by attempt.
ConnProtocol ==
    /\ Len(ConnAttempts) <= max_retries
    /\ ConnAlternates
    /\ conn_pc = "returned" <=> (conn_events # <<>> /\ ConnLast = "ok")
    /\ conn_pc = "sleep" <=>
          (conn_events # <<>> /\ ConnLast = "down" /\ Len(ConnAttempts) < max_retries)
    /\ conn_pc = "raised" <=>
          \/ ~conn_env /\ conn_events = <<>> /\ conn_pc # "start"
          \/ /\ conn_events # <<>>
             /\ \/ ConnLast = "other"
                \/ ConnLast = "down" /\ Len(ConnAttempts) = max_retries
    /\ (conn_env /\ conn_pc \in {"returned", "raised"}) =>
          connect_to_mongodb(conn_server, 0) =
              [ok |-> conn_pc = "returned", attempts |-> Len(ConnAttempts)]

\* C27: connect_to_mongodb makes at most max_retries (3) attempts; it returns
\* on the first attempt that succeeds; after a connection failure on an
\* attempt that is not the last it sleeps and tries again; after the last
\* attempt fails it raises; any other exception is raised at once, without
\* another attempt; and every call ends, returning or raising.
C27_ConnectRetryProtocol ==
    []ConnProtocol /\ <>(conn_pc \in {"returned", "raised"})

\* C27 witness: a call that slept twice and returned on its third attempt.
C27_Witness ==
    /\ conn_pc = "returned"
    /\ conn_events = <<"down", "sleep", "down", "sleep", "ok">>

----------------------------------------------------------------------------
(* The update type of one install-set log as 2.py records it and as         *)
(* success-failure.py dispatches on it.                                     *)

\* 2.py lines 197-205 on a new record.
ReadInstallationMethod ==
    /\ "2.py" \notin typ_ran /\ "idle" \notin typ_ran
    /\ typ_method' =
          extract_installset_info([st |-> typ_log.st, lines |-> <<typ_log.data>>],
                                  initialize_dictionary)
              ["Firmware Update"]["Installation Method"]
    /\ typ_ran' = typ_ran \cup {"2.py"}
    /\ UNCHANGED <<typ_log, typ_dispatch>>
    /\ UNCHANGED NotTyp

\* success-failure.py lines 94-99: the update type of the dispatch; a log that
\* cannot be read leaves the try block before there is one.
ReadDispatchType ==
    /\ "success-failure.py" \notin typ_ran /\ "idle" \notin typ_ran
    /\ typ_dispatch' = IF typ_log.st = "ok" THEN extract_last_update_type(typ_log.data)
                       ELSE [none |-> TRUE, value |-> <<>>]
    /\ typ_ran' = typ_ran \cup {"success-failure.py"}
    /\ UNCHANGED <<typ_log, typ_method>>
    /\ UNCHANGED NotTyp

InitType ==
    /\ typ_log \in {OkText(t) : t \in InstallTexts} \cup {NoText("missing"), NoText("error")}
    /\ typ_method = ""
    /\ typ_dispatch = [none |-> TRUE, value |-> <<>>]
    /\ typ_ran = {}
    /\ ClsIdle /\ IsrIdle /\ DepIdle /\ FwIdle /\ MainIdle /\ ConnIdle /\ SutIdle /\ ClIdle /\ MstIdle /\ OrchIdle

NextType ==
    \/ ReadInstallationMethod
    \/ ReadDispatchType

SpecType == InitType /\ [][NextType]_vars

----------------------------------------------------------------------------
(* Properties of the two readers.                                           *)

BothRan == typ_ran = {"2.py", "success-failure.py"}

\* The positions of the key '"update_type"' in the log.
TypeKeys == {i \in 1..Len(typ_log.data) : IsAt(typ_log.data, <<"\"", "update_type", "\"">>, i)}

\* The key at i is written '"update_type": "<word>"'.
PlainMarkerAt(i) ==
    /\ i + 6 <= Len(typ_log.data)
    /\ typ_log.data[i + 3] = ":"
    /\ typ_log.data[i + 4] = "\""
    /\ typ_log.data[i + 5] # "\""
    /\ typ_log.data[i + 6] = "\""

MarkerValue(i) == typ_log.data[i + 5]

\* The text of the dispatch type, nothing when there is none.
DispatchText == IF typ_dispatch.none THEN "" ELSE Text(typ_dispatch.value)

\* C29: the Installation Method extract_installset_info stores equals the
\* update type determine_update_type_and_check dispatches on for the same
\* install-set log, logs with several update_type markers of different values
\* included.
C29_SameUpdateType == BothRan => typ_method = DispatchText

\* C29 as amended: in a log whose update_type keys are all written
\* '"update_type": "<word>"', the stored Installation Method is the word of
\* the first marker and the dispatch is on the word of the last marker; the
\* two are equal when the markers carry one value, and a log without the key
\* gives neither.
C29_FirstAndLastMarker ==
    (BothRan /\ typ_log.st = "ok" /\ \A i \in TypeKeys : PlainMarkerAt(i)) =>
        IF TypeKeys = {}
        THEN typ_method = "" /\ typ_dispatch.none
        ELSE /\ typ_method = MarkerValue(Min(TypeKeys))
             /\ ~typ_dispatch.none
             /\ typ_dispatch.value = <<MarkerValue(Max(TypeKeys))>>
             /\ Cardinality({MarkerValue(i) : i \in TypeKeys}) = 1 =>
                   typ_method = DispatchText

\* C29 witness: both readers have run on a log with two markers of different
\* values; the record says Online and the dispatch is on Offline.
C29_Witness ==
    /\ BothRan
    /\ typ_log.data = KeyThen("Online") \o KeyThen("Offline")
    /\ typ_method = "Online"
    /\ DispatchText = "Offline"

----------------------------------------------------------------------------
(* 2.py: extract_firmware_log_info and extract_sut_info_from_log_content    *)
(* reading the SUT status of server Uuid1 from the same lines.              *)

MaxSutLines == 2

\* A SUT status line of server u with the section
\* '[Mode: <m>Service State: <s>Version: <v>Type: ...]'.
StandardSutLine(u, m, s, v) ==
    <<SutStatusToken, u, ",", "[", "Mode:", m, "Service", "State:", s,
      "Version:", v, "Type:", "#SUT", "]">>

SutSampleLines ==
    {StandardSutLine(Uuid1, "AutoStage", "Disabled", "5.2.0.0"),
     StandardSutLine(Uuid1, "auto", "enabled", "2.9"),
     StandardSutLine(Uuid2, "AutoStage", "Disabled", "5.2.0.0"),
     <<SutStatusToken, Uuid1, ",", "[", "Mode:", "auto", "State:", "Disabled",
       "Version:", "5.2.0.0", "Type:", "#SUT", "]">>,
     <<SutStatusToken, Uuid1, ",", "[", "Mode:", "auto", "Service", "State:", "enabled", "]">>,
     <<"INFO">>}

\* Lines 225-281 on a new record of server Uuid1.
RunOwnLogExtractor ==
    /\ "extract_firmware_log_info" \notin sut_ran /\ "idle" \notin sut_ran
    /\ sut_own' = extract_firmware_log_info(OkLines(sut_lines), Uuid1,
                                            WithUuid(initialize_dictionary, Uuid1))
    /\ sut_ran' = sut_ran \cup {"extract_firmware_log_info"}
    /\ UNCHANGED <<sut_lines, sut_fb>>
    /\ UNCHANGED NotSut

\* Lines 349-380 on the same lines.
RunFallbackExtractor ==
    /\ "extract_sut_info_from_log_content" \notin sut_ran /\ "idle" \notin sut_ran
    /\ sut_fb' = extract_sut_info_from_log_content(sut_lines, Uuid1)
    /\ sut_ran' = sut_ran \cup {"extract_sut_info_from_log_content"}
    /\ UNCHANGED <<sut_lines, sut_own>>
    /\ UNCHANGED NotSut

InitSut ==
    /\ sut_lines \in SeqsUpTo(SutSampleLines, MaxSutLines)
    /\ sut_own = initialize_dictionary
    /\ sut_fb = [exc |-> NoExc, sut_info |-> <<>>]
    /\ sut_ran = {}
    /\ ClsIdle /\ IsrIdle /\ DepIdle /\ FwIdle /\ MainIdle /\ ConnIdle /\ TypIdle /\ ClIdle /\ MstIdle /\ OrchIdle

NextSut ==
    \/ RunOwnLogExtractor
    \/ RunFallbackExtractor

SpecSut == InitSut /\ [][NextSut]_vars

----------------------------------------------------------------------------
(* Properties of the two SUT extractors.                                    *)

BothExtractorsRan ==
    sut_ran = {"extract_firmware_log_info", "extract_sut_info_from_log_content"}

\* The SUT status lines of server Uuid1 in the log.
OwnSutLines == {k \in 1..Len(sut_lines) : sut_status_line(sut_lines[k], Uuid1)}

\* The line carries a section of the standard form.
IsStandard(line) ==
    /\ Len(line) = 14
    /\ line = StandardSutLine(line[2], line[6], line[9], line[11])

\* C30: for a log whose SUT status of the server is one section of the form
\* '[Mode: <m>Service State: <s>Version: <v>Type: ...]', the fallback
\* extract_sut_info_from_log_content returns without raising, and returns the
\* Mode, Service State and Running Version extract_firmware_log_info stores:
\* the texts between 'Mode:' and 'Service', 'State:' and 'Version:',
\* 'Version:' and 'Type:'.
C30_SutExtractorsAgree ==
    (/\ BothExtractorsRan
     /\ Cardinality(OwnSutLines) = 1
     /\ \A k \in OwnSutLines : IsStandard(sut_lines[k])) =>
        /\ sut_fb.exc = NoExc
        /\ \A k \in OwnSutLines :
              /\ sut_own["Firmware Update"]["SUT Mode"] = sut_lines[k][6]
              /\ sut_own["Firmware Update"]["SUT Service State"] = sut_lines[k][9]
              /\ sut_own["Firmware Update"]["SUT Running Version"] = sut_lines[k][11]
        /\ \A f \in SutFields : sut_fb.sut_info[f] = sut_own["Firmware Update"][f]

----------------------------------------------------------------------------
(* 3.py: safe_cleanup.                                                      *)
(* A path is a sequence of names and a name a sequence of text pieces, so   *)
(* that 'output_old' begins with the text of 'output'.                      *)

Dot == <<".">>

DotDot == <<"..">>

cwd == <<<<"srv">>>>

\* The text of an absolute path: '/' before each name.
PathText(path) == Flatten([i \in 1..Len(path) |-> <<"/">> \o path[i]])

\* One component of os.path.normpath.
normpath_step(at, name) ==
    IF name = Dot THEN at
    ELSE IF name # DotDot THEN Append(at, name)
    ELSE IF at = <<>> THEN at
    ELSE SubSeq(at, 1, Len(at) - 1)

RECURSIVE normpath(_, _)
normpath(parts, at) ==
    IF parts = <<>> THEN at ELSE normpath(Tail(parts), normpath_step(at, Head(parts)))

\* os.path.abspath: normpath(join(os.getcwd(), path)).
abspath(arg) == normpath(arg.parts, IF arg.abs THEN <<>> ELSE cwd)

\* os.path.exists(machine_dir) and os.path.isdir(machine_dir): the system
\* walks the path and every directory on the way has to exist.
RECURSIVE isdir(_, _, _)
isdir(parts, at, dirs) ==
    IF at # <<>> /\ at \notin dirs THEN FALSE
    ELSE IF parts = <<>> THEN TRUE
    ELSE isdir(Tail(parts), normpath_step(at, Head(parts)), dirs)

\* A test on the components of the path: below output_base, not it.
startswith_components_mutant(text, prefix) ==
    /\ Len(prefix) < Len(text)
    /\ SubSeq(text, 1, Len(prefix)) = prefix
    /\ text[Len(prefix) + 1] = "/"

\* str.startswith: a test on the characters of the two texts.
startswith(text, prefix) ==
    /\ Len(prefix) <= Len(text)
    /\ SubSeq(text, 1, Len(prefix)) = prefix

\* Line 49: os.path.abspath("./output").
output_base == abspath([given |-> TRUE, abs |-> FALSE, parts |-> <<Dot, <<"output">>>>])

\* The directories at or below path.
Tree(path, dirs) ==
    {d \in dirs : Len(d) >= Len(path) /\ SubSeq(d, 1, Len(path)) = path}

\* shutil.rmtree inside try/except (lines 56-60): the tree is gone, or the
\* call failed before removing anything, or it failed on the way with the
\* directories below gone and the directory itself left.
RmtreeOutcomes(path, dirs) ==
    {dirs \ Tree(path, dirs), dirs, (dirs \ Tree(path, dirs)) \cup {path}}

\* Lines 32-64, the whole call.
SafeCleanup ==
    /\ cl_pc = "start"
    /\ cl_pc' = "done"
    /\ IF ~cl_arg.given \/ cl_arg.parts = <<>>
       THEN cl_msg' = "No machine directory specified" /\ UNCHANGED cl_dirs
       ELSE IF ~isdir(cl_arg.parts, IF cl_arg.abs THEN <<>> ELSE cwd, cl_dirs)
       THEN cl_msg' = "Machine directory not found" /\ UNCHANGED cl_dirs
       ELSE IF ~startswith(PathText(abspath(cl_arg)), PathText(output_base))
       THEN cl_msg' = "Error: not within output" /\ UNCHANGED cl_dirs
       ELSE /\ cl_dirs' \in RmtreeOutcomes(abspath(cl_arg), cl_dirs)
            /\ cl_msg' = IF abspath(cl_arg) \in cl_dirs'
                         THEN "Could not delete" ELSE "Deleted"
    /\ UNCHANGED <<cl_arg, cl_before>>
    /\ UNCHANGED NotCl

----------------------------------------------------------------------------
(* Inputs of safe_cleanup.                                                  *)

Rel(parts) == [given |-> TRUE, abs |-> FALSE, parts |-> parts]

Abs(parts) == [given |-> TRUE, abs |-> TRUE, parts |-> parts]

NoArgument == [given |-> FALSE, abs |-> FALSE, parts |-> <<>>]

OutputName == <<"output">>

OutputOld == <<"output", "_old">>

CleanupArguments ==
    {NoArgument,
     Rel(<<>>),
     Rel(<<OutputName, <<"m1">>>>),
     Rel(<<Dot, OutputName, <<"m2">>>>),
     Rel(<<OutputName, <<"m3">>>>),
     Rel(<<OutputName, <<"m1">>, <<"serverlogs">>>>),
     Rel(<<OutputName>>),
     Rel(<<OutputOld>>),
     Rel(<<OutputOld, <<"m1">>>>),
     Rel(<<OutputName, DotDot, <<"data">>>>),
     Rel(<<<<"data">>>>),
     Abs(<<<<"srv">>, OutputName, <<"m1">>>>),
     Abs(<<<<"srv">>, OutputOld>>),
     Abs(<<<<"etc">>>>)}

\* The directories every run has, and those that may be there or not.
FixedDirs == {cwd, <<<<"etc">>>>, cwd \o <<<<"data">>>>}

OptionalTrees ==
    {{cwd \o <<OutputName>>},
     {cwd \o <<OutputName>>, cwd \o <<OutputName, <<"m1">>>>,
      cwd \o <<OutputName, <<"m1">>, <<"serverlogs">>>>},
     {cwd \o <<OutputName>>, cwd \o <<OutputName, <<"m2">>>>},
     {cwd \o <<OutputOld>>, cwd \o <<OutputOld, <<"m1">>>>}}

InitCleanup ==
    /\ cl_arg \in CleanupArguments
    /\ cl_dirs \in {FixedDirs \cup UNION ts : ts \in SUBSET OptionalTrees}
    /\ cl_before = cl_dirs
    /\ cl_msg = ""
    /\ cl_pc = "start"
    /\ ClsIdle /\ IsrIdle /\ DepIdle /\ FwIdle /\ MainIdle /\ ConnIdle /\ TypIdle /\ SutIdle /\ MstIdle /\ OrchIdle

NextCleanup == SafeCleanup

SpecCleanup == InitCleanup /\ [][NextCleanup]_vars

----------------------------------------------------------------------------
(* Properties of safe_cleanup.                                              *)

\* The path lies strictly within ./output: below it, and not it.
StrictlyWithinOutput(path) ==
    Len(path) > Len(output_base) /\ SubSeq(path, 1, Len(output_base)) = output_base

\* C26: whatever machine_dir is, safe_cleanup removes a directory only if it
\* lies strictly within ./output: not a directory whose absolute path merely
\* begins with the same characters (a sibling output_old), not the output
\* directory itself; with no argument nothing is removed.
C26_DeletesOnlyInsideOutput ==
    cl_pc = "done" =>
        /\ \A d \in cl_before \ cl_dirs : StrictlyWithinOutput(d)
        /\ ~cl_arg.given => cl_dirs = cl_before

----------------------------------------------------------------------------
(* master.py: main.  A machine name is modelled by a number, its rank in    *)
(* the order sorted() puts the names in.                                    *)

\* sorted(machine_dirs)
sorted(machine_dirs) == SortSeq(machine_dirs, LAMBDA a, b : a < b)

\* run_log_analysis, lines 31-82: False without orchestrator.py, else True
\* iff the subprocess returned 0; an exception of the run is caught: False.
run_log_analysis(script_exists, outcome) ==
    script_exists /\ outcome = "returncode 0"

\* process_machine, lines 87-122: the result of run_log_analysis.
process_machine(script_exists, outcome) == run_log_analysis(script_exists, outcome)

\* The loop stops at the first machine that failed.
stop_at_failure_mutant(ok, i, n) == IF ok THEN i + 1 ELSE n + 1

\* Lines 169-186: both branches of the loop body go on to the next name.
next_machine(ok, i, n) == i + 1

\* Lines 142-167: the directory test, the listing and the two lists.
MasterStart ==
    /\ mst_pc = "start"
    /\ IF mst_output.st # "ok" \/ mst_output.listing = <<>>
       THEN /\ mst_pc' = "returned"
            /\ mst_exit' = 1
            /\ UNCHANGED <<mst_sorted, mst_i>>
       ELSE /\ mst_pc' = "loop"
            /\ mst_sorted' = sorted(mst_output.listing)
            /\ mst_i' = 1
            /\ UNCHANGED mst_exit
    /\ successful' = <<>>
    /\ failed' = <<>>
    /\ UNCHANGED <<mst_output, mst_script, mst_world, mst_present, mst_analysed>>
    /\ UNCHANGED NotMst

\* Lines 169-186: one pass of the loop.  The orchestrator run for a machine
\* may remove output/<machine>, the directory of that machine only.
MasterMachine ==
    /\ mst_pc = "loop"
    /\ mst_i <= Len(mst_sorted)
    /\ LET machine_name == mst_sorted[mst_i]
           ok == process_machine(mst_script, mst_world[machine_name])
       IN  IF machine_name \notin mst_present
           THEN /\ failed' = Append(failed, machine_name)
                /\ mst_i' = mst_i + 1
                /\ UNCHANGED <<successful, mst_analysed, mst_present>>
           ELSE /\ mst_analysed' = Append(mst_analysed, machine_name)
                /\ successful' = IF ok THEN Append(successful, machine_name) ELSE successful
                /\ failed' = IF ok THEN failed ELSE Append(failed, machine_name)
                /\ mst_i' = next_machine(ok, mst_i, Len(mst_sorted))
                /\ \E cleaned \in BOOLEAN :
                      mst_present' = IF ok /\ cleaned
                                     THEN mst_present \ {machine_name} ELSE mst_present
    /\ UNCHANGED <<mst_output, mst_script, mst_world, mst_pc, mst_sorted, mst_exit>>
    /\ UNCHANGED NotMst

\* Lines 188-210: the summary and the exit code.
MasterSummary ==
    /\ mst_pc = "loop"
    /\ mst_i > Len(mst_sorted)
    /\ mst_exit' = IF failed = <<>> THEN 0 ELSE 1
    /\ mst_pc' = "returned"
    /\ UNCHANGED <<mst_output, mst_script, mst_world, mst_present, mst_sorted, mst_i,
                   successful, failed, mst_analysed>>
    /\ UNCHANGED NotMst

----------------------------------------------------------------------------
(* Inputs of master.py.                                                     *)

MaxMachines == 3

MachineNames == 1..MaxMachines

\* The listings iterdir can give: the machines there are, in any order.
Listings ==
    {l \in SeqsUpTo(MachineNames, MaxMachines) :
        \A i, j \in 1..Len(l) : i # j => l[i] # l[j]}

AnalysisOutcomes == {"returncode 0", "returncode 1", "raises"}

InitMaster ==
    /\ mst_output \in {[st |-> "ok", listing |-> l] : l \in Listings}
                      \cup {[st |-> "missing", listing |-> <<>>],
                            [st |-> "error", listing |-> <<>>]}
    /\ mst_script \in BOOLEAN
    /\ mst_world \in [MachineNames -> AnalysisOutcomes]
    /\ mst_present = {mst_output.listing[i] : i \in 1..Len(mst_output.listing)}
    /\ mst_pc = "start"
    /\ mst_sorted = <<>>
    /\ mst_i = 0
    /\ successful = <<>>
    /\ failed = <<>>
    /\ mst_analysed = <<>>
    /\ mst_exit = -1
    /\ ClsIdle /\ IsrIdle /\ DepIdle /\ FwIdle /\ MainIdle /\ ConnIdle /\ TypIdle /\ SutIdle /\ ClIdle /\ OrchIdle

NextMaster ==
    \/ MasterStart
    \/ MasterMachine
    \/ MasterSummary

SpecMaster == InitMaster /\ [][NextMaster]_vars

----------------------------------------------------------------------------
(* Properties of master.py.                                                 *)

Elements(q) == {q[i] : i \in 1..Len(q)}

NoRepeats(q) == \A i, j \in 1..Len(q) : i # j => q[i] # q[j]

Ascending(q) == \A i, j \in 1..Len(q) : i < j => q[i] < q[j]

MachinesFound == Elements(mst_output.listing)

\* While the loop runs: the machines analysed so far are the lowest names
\* found, each once and in ascending order, whatever their results, and each
\* is in exactly one of the two lists.
BatchProgress ==
    /\ NoRepeats(mst_analysed) /\ Ascending(mst_analysed)
    /\ Elements(mst_analysed) \subseteq MachinesFound
    /\ \A m \in MachinesFound :
          \A a \in Elements(mst_analysed) : m < a => m \in Elements(mst_analysed)
    /\ NoRepeats(successful \o failed)
    /\ Elements(successful) \cup Elements(failed) = Elements(mst_analysed)
    /\ \A m \in Elements(mst_analysed) :
          m \in Elements(successful) <=>
              (mst_script /\ mst_world[m] = "returncode 0")

\* When main has returned.
BatchResult ==
    mst_pc = "returned" =>
        IF mst_output.st # "ok" \/ MachinesFound = {}
        THEN mst_exit = 1 /\ mst_analysed = <<>>
        ELSE /\ Elements(mst_analysed) = MachinesFound
             /\ (mst_exit = 0 <=> failed = <<>>)
             /\ mst_exit \in {0, 1}

----------------------------------------------------------------------------
(* orchestrator.py: main.  Step 1 runs 2.py as a subprocess, whose run is   *)
(* main of 2.py above; the cleanup step runs 3.py on output/<machine>.      *)

\* subprocess.run(..., check=True) for 2.py, lines 54-60 and 75-92:
\* run_step returns True iff the process exits with code 0.  main of 2.py
\* ends by returning, which is exit code 0, unless an exception leaves it.
run_step_2py(pc) == pc = "returned"

\* Lines 95-111: the directory test, then 2.py is started; a subprocess that
\* cannot be started makes run_step return False (lines 86-90).
OrchStart ==
    /\ orch_pc = "start"
    /\ IF ~orch_dir \/ ~orch_launch
       THEN orch_pc' = "returned" /\ orch_ret' = 1 /\ UNCHANGED main_pc
       ELSE orch_pc' = "2.py" /\ main_pc' = "start" /\ UNCHANGED orch_ret
    /\ UNCHANGED <<orch_launch, orch_dir>>
    /\ UNCHANGED <<machine, main_shared, main_index, main_dict, main_trace, main_isr,
                   main_saved, main_handoffs, main_stored, main_results, main_sut_log>>
    /\ UNCHANGED NotOrch

\* Lines 111-113: 2.py has ended; its exit code decides.
OrchAfterAnalysis ==
    /\ orch_pc = "2.py"
    /\ main_pc \in {"returned", "crashed"}
    /\ IF run_step_2py(main_pc)
       THEN orch_pc' = "3.py" /\ UNCHANGED orch_ret
       ELSE orch_pc' = "returned" /\ orch_ret' = 1
    /\ UNCHANGED <<orch_launch, orch_dir>>
    /\ UNCHANGED mainVars
    /\ UNCHANGED NotOrch

\* Lines 115-121: 3.py output/<machine>; safe_cleanup removes the directory
\* (it lies within ./output) unless rmtree fails; the workflow returns 0
\* either way.
OrchCleanup ==
    /\ orch_pc = "3.py"
    /\ \E removed \in BOOLEAN :
          orch_dir' = (orch_dir /\ ~removed)
    /\ orch_pc' = "returned"
    /\ orch_ret' = 0
    /\ UNCHANGED orch_launch
    /\ UNCHANGED mainVars
    /\ UNCHANGED NotOrch

\* 2.py runs only as the subprocess of step 1.
OrchAnalysis == orch_pc = "2.py" /\ NextMain /\ UNCHANGED orchVars

InitOrch ==
    /\ machine \in StartMachines
    /\ main_pc = "idle"
    /\ main_shared = [version |-> "", model_number |-> ""]
    /\ main_index = 0
    /\ main_dict = initialize_dictionary
    /\ main_trace = <<>>
    /\ main_isr = NoIsrCall
    /\ main_saved = <<>>
    /\ main_handoffs = <<>>
    /\ main_stored = <<>>
    /\ main_results = <<>>
    /\ main_sut_log = "none"
    /\ orch_launch \in BOOLEAN
    /\ orch_dir = machine.output_dir
    /\ orch_pc = "start"
    /\ orch_ret = -1
    /\ ClsIdle /\ IsrIdle /\ DepIdle /\ FwIdle /\ ConnIdle /\ TypIdle /\ SutIdle /\ ClIdle /\ MstIdle

NextOrch ==
    \/ OrchStart
    \/ OrchAnalysis
    \/ OrchAfterAnalysis
    \/ OrchCleanup

SpecOrch == InitOrch /\ [][NextOrch]_vars

----------------------------------------------------------------------------
(* Properties of the orchestrator.                                          *)

\* The collection holds a record of every server of the machine.
EveryServerStored ==
    \A k \in 1..Len(machine.json_files) :
        \E i \in 1..Len(main_stored) :
            main_stored[i]["Server"]["UUID"] = machine.json_files[k]

\* The connection was not made, or an insert_one call failed.
StoreTrouble ==
    \/ ~ConnectSucceeds
    \/ \E i \in 1..Len(main_results) : main_results[i].outcome # "ok"

\* C25: the cleanup removes output/<machine> only after 2.py has stored the
\* record of every server of the machine; when the connection to the store
\* cannot be made or the insert of a server fails, the workflow returns
\* failure and the directory stays.
C25_CleanupAfterStore ==
    /\ (machine.output_dir /\ ~orch_dir) => EveryServerStored
    /\ (orch_pc = "returned" /\ machine.output_dir /\ StoreTrouble) =>
          orch_ret = 1 /\ orch_dir

============================================================================
